---- MODULE Spec2Model ----
(***************************************************************************)
(* Specification sheet editor (src/main.py): the row list of the main      *)
(* window, the HTML exporter, the importer with its table fallback, and    *)
(* the scrape worker, as state machines.                                    *)
(*                                                                         *)
(* Text is a sequence of one-character strings.  Two atoms stand for       *)
(* characters outside ASCII: "sz" is U+00DF (sharp s) and "SZ" is U+1E9E   *)
(* (capital sharp s).                                                      *)
(***************************************************************************)
EXTENDS Integers, Sequences, FiniteSets, TLC

\* ------------------------------------------------------------------ bounds
\* Longest enumerated text in the escaping specification.
MaxTextLen == 3
\* Most rows of a document drawn for export and import.
MaxDocRows == 2
\* Most rows the editing specification lets the row list grow to.
MaxRows == 3
\* Most export workers alive at once.
MaxExportJobs == 1
\* Rows of a scraped data sheet.
MaxPageRows == 2
MaxRawLines == 4
\* Rows of a data sheet in the scrape mapping.
MaxSheetRows == 3
\* Declarations of a style attribute.
MaxDecls == 3
\* Export workers alive at once where export requests may overlap.
MaxOverlap == 2
\* Attempts of an engine initialisation that are counted.
MaxCalls == 4

\* ------------------------------------------------------------------ text
\* All sequences over S of length at most n.
SeqUpTo(S, n) == UNION {[1..k -> S] : k \in 0..n}

\* Concatenation of a sequence of sequences.
RECURSIVE FlattenSeq(_)
FlattenSeq(ss) == IF ss = <<>> THEN <<>> ELSE Head(ss) \o FlattenSeq(Tail(ss))

\* str.replace(old, new) for a one-character old.
ReplaceChar(t, old, new) ==
    FlattenSeq([i \in 1..Len(t) |-> IF t[i] = old THEN new ELSE <<t[i]>>])

\* Characters str.strip() removes.
Whitespace == {" "}

\* str.strip(): drop leading and trailing whitespace.
RECURSIVE LStrip(_)
LStrip(t) == IF t # <<>> /\ Head(t) \in Whitespace THEN LStrip(Tail(t)) ELSE t
RECURSIVE RStrip(_)
RStrip(t) ==
    IF t # <<>> /\ t[Len(t)] \in Whitespace THEN RStrip(SubSeq(t, 1, Len(t) - 1)) ELSE t
\* A variant that leaves the blanks at both ends in place.
Strip_Keep(t) == t

\* str.strip()
Strip(t) == RStrip(LStrip(t))

\* A double-escaping variant: the ampersand is replaced last, so the
\* ampersands of the entities written for < > " are escaped again.
escape_html_AmpLast(text) ==
    ReplaceChar(ReplaceChar(ReplaceChar(ReplaceChar(text,
        "<", <<"&", "l", "t", ";">>),
        ">", <<"&", "g", "t", ";">>),
        "\"", <<"&", "q", "u", "o", "t", ";">>),
        "&", <<"&", "a", "m", "p", ";">>)

\* _escape_html: four replacements in sequence, the ampersand first.
_escape_html(text) ==
    ReplaceChar(ReplaceChar(ReplaceChar(ReplaceChar(text,
        "&", <<"&", "a", "m", "p", ";">>),
        "<", <<"&", "l", "t", ";">>),
        ">", <<"&", "g", "t", ";">>),
        "\"", <<"&", "q", "u", "o", "t", ";">>)

\* _normalize_for_paste: sharp s becomes ss, capital sharp s becomes SS.
_normalize_for_paste(t) ==
    ReplaceChar(ReplaceChar(t, "sz", <<"s", "s">>), "SZ", <<"S", "S">>)

\* html.unescape (standard library), for the named references the exporter
\* writes.  A reference is "&", then up to 32 characters none of which is
\* white space, "<", "&", "#" or ";", then an optional ";".
RefStop == {" ", "<", "&", "#", ";"}
NamedRefs ==
    (<<"a", "m", "p", ";">> :> "&") @@ (<<"a", "m", "p">> :> "&") @@
    (<<"l", "t", ";">> :> "<") @@ (<<"l", "t">> :> "<") @@
    (<<"g", "t", ";">> :> ">") @@ (<<"g", "t">> :> ">") @@
    (<<"q", "u", "o", "t", ";">> :> "\"") @@ (<<"q", "u", "o", "t">> :> "\"")

\* Length of the longest run of name characters at the start of t.
RECURSIVE NameRun(_, _)
NameRun(t, n) ==
    IF n < 32 /\ n < Len(t) /\ t[n + 1] \notin RefStop THEN NameRun(t, n + 1) ELSE n

\* The text matched after "&" (name and optional ";"), or <<>> for no match.
RefMatch(t) ==
    LET n == NameRun(t, 0)
    IN IF n = 0 THEN <<>>
       ELSE IF n < Len(t) /\ t[n + 1] = ";" THEN SubSeq(t, 1, n + 1) ELSE SubSeq(t, 1, n)

\* Replacement of one matched reference s (html._replace_charref).
ReplaceCharref(s) ==
    IF s \in DOMAIN NamedRefs THEN <<NamedRefs[s]>>
    ELSE LET px == {x \in 2..(Len(s) - 1) : SubSeq(s, 1, x) \in DOMAIN NamedRefs}
         IN IF px = {} THEN <<"&">> \o s
            ELSE LET x == CHOOSE y \in px : \A z \in px : z <= y
                 IN <<NamedRefs[SubSeq(s, 1, x)]>> \o SubSeq(s, x + 1, Len(s))

RECURSIVE Unescape(_)
Unescape(t) ==
    IF t = <<>> THEN <<>>
    ELSE IF Head(t) = "&" /\ RefMatch(Tail(t)) # <<>>
         THEN LET s == RefMatch(Tail(t))
              IN ReplaceCharref(s) \o Unescape(SubSeq(t, Len(s) + 2, Len(t)))
         ELSE <<Head(t)>> \o Unescape(Tail(t))

\* ------------------------------------------------------------------ constants
\* DEFAULT_HEADER_LEFT = "Kategorie", DEFAULT_HEADER_RIGHT = "Details".
DEFAULT_HEADER_LEFT == <<"K", "a", "t", "e", "g", "o", "r", "i", "e">>
DEFAULT_HEADER_RIGHT == <<"D", "e", "t", "a", "i", "l", "s">>

\* The title a HeaderRow or CategoryRow takes when it is built with an empty one.
NeuerAbschnitt ==
    <<"N", "e", "u", "e", "r", " ", "A", "b", "s", "c", "h", "n", "i", "t", "t">>

\* The importer's in-band markers for section and category rows.
MarkerSection == <<"_", "_", "S", "E", "C", "T", "I", "O", "N", "_", "_">>
MarkerCat == <<"_", "_", "C", "A", "T", "_", "_">>

\* ------------------------------------------------------------------ markup
\* A value fragment is a sequence of atoms: characters, and these tags.  The
\* two span tags carry a class attribute naming "section" and "cat".
TagAtoms == {"<b>", "</b>", "<br />", "<span class=section>", "<span class=cat>", "</span>"}

\* re.search(r'class="[^"]*\bWORD\b[^"]*"') over a fragment.
FragHasClass(frag, word) ==
    \E i \in 1..Len(frag) :
        \/ word = "section" /\ frag[i] = "<span class=section>"
        \/ word = "cat" /\ frag[i] = "<span class=cat>"

\* ------------------------------------------------------------------ files
\* One <tr> of a table body: the class of the <tr>, its <th> (class, colspan
\* and inner text) and its <td> (inner markup).
NoFile == [exists |-> FALSE]
NoSnapshot == [present |-> FALSE]

SectionTr(title) ==
    [cls |-> "section", th |-> TRUE, th_cls |-> "section", th_colspan |-> TRUE,
     th_text |-> title, td |-> FALSE, td_html |-> <<>>]
CatTr(title) ==
    [cls |-> "cat", th |-> TRUE, th_cls |-> "category", th_colspan |-> TRUE,
     th_text |-> title, td |-> FALSE, td_html |-> <<>>]
KvTr(k, v) ==
    [cls |-> "", th |-> TRUE, th_cls |-> "", th_colspan |-> FALSE,
     th_text |-> k, td |-> TRUE, td_html |-> v]

\* ------------------------------------------------------------------ exporter
\* _build_table_from_snapshot: "if not (k or v): continue".
SkipEntry(k, v) == k = <<>> /\ v = <<>>

\* export_table_only: the snapshot item of one row widget.  key_plain,
\* title_plain and header_plain are the text of the line edit, stripped;
\* val_html is the sanitized inner markup of the value editor.
SnapshotItem(rw) ==
    IF rw.kind = "section" THEN [kind |-> "section", a |-> Strip(rw.text), b |-> <<>>]
    ELSE IF rw.kind = "cat" THEN [kind |-> "cat", a |-> Strip(rw.text), b |-> <<>>]
    ELSE [kind |-> "kv", a |-> Strip(rw.text), b |-> rw.val]

TakeSnapshot(rows) == [i \in 1..Len(rows) |-> SnapshotItem(rows[i])]

\* hdr.text().strip() or DEFAULT
HeaderOrDefault(t, dflt) == IF Strip(t) = <<>> THEN dflt ELSE Strip(t)

\* ------------------------------------------------------------------ importer
\* A row as _parse_specs_file returns it: the pair (key_plain, value_html),
\* a section or category being the pair (marker, title).
ParsedRow(k, v) == [key |-> k, value |-> v]

\* _parse_specs_file, snapshot path: the rows of the embedded JSON.  A
\* version below 2 knows key/value rows only.
SnapshotRows(snap) ==
    [i \in 1..Len(snap.rows) |->
        IF snap.ver >= 2 /\ snap.rows[i].type = "section"
            THEN ParsedRow(MarkerSection, snap.rows[i].title)
        ELSE IF snap.ver >= 2 /\ snap.rows[i].type = "cat"
            THEN ParsedRow(MarkerCat, snap.rows[i].title)
        ELSE ParsedRow(snap.rows[i].key, snap.rows[i].value_html)]

\* The snapshot path succeeds when the comment matches, its JSON loads and
\* every row descriptor is a mapping; any exception falls through to the table.
SnapshotUsable(f) ==
    /\ f.snapshot.present
    /\ f.snapshot.json_ok
    /\ \A i \in 1..Len(f.snapshot.rows) : f.snapshot.rows[i].mapping

\* re.search(r'class="[^"]*\bWORD\b[^"]*"', tr_html): any class attribute
\* inside the <tr> element, its own or one of a cell or of the value markup.
\* The class "category" does not hold the word "cat".
TrHasClass(tr, word) ==
    \/ tr.cls = word
    \/ tr.th /\ tr.th_cls = word
    \/ tr.th /\ FragHasClass(tr.th_text, word)
    \/ tr.td /\ FragHasClass(tr.td_html, word)

\* _parse_specs_file, table path: the rows one <tr> contributes.
ParseTr(tr) ==
    IF TrHasClass(tr, "section")
        THEN <<ParsedRow(MarkerSection,
                IF tr.th /\ tr.th_cls = "section" /\ tr.th_colspan
                THEN Unescape(Strip(tr.th_text)) ELSE <<>>)>>
    ELSE IF TrHasClass(tr, "cat")
        THEN <<ParsedRow(MarkerCat,
                IF tr.th /\ tr.th_cls = "category" /\ tr.th_colspan
                THEN Unescape(Strip(tr.th_text)) ELSE <<>>)>>
    ELSE IF tr.th /\ tr.th_cls = "" /\ ~tr.th_colspan /\ tr.td
        THEN <<ParsedRow(Unescape(Strip(tr.th_text)), Strip(tr.td_html))>>
    ELSE <<>>

\* _parse_specs_file: (left header, right header, rows).
_parse_specs_file(content) ==
    IF SnapshotUsable(content)
    THEN [left |-> content.snapshot.left, right |-> content.snapshot.right,
          rows |-> SnapshotRows(content.snapshot)]
    ELSE [left |-> IF Len(content.thead) = 2
                   THEN Unescape(Strip(content.thead[1])) ELSE DEFAULT_HEADER_LEFT,
          right |-> IF Len(content.thead) = 2
                    THEN Unescape(Strip(content.thead[2])) ELSE DEFAULT_HEADER_RIGHT,
          rows |-> FlattenSeq([i \in 1..Len(content.tbody) |-> ParseTr(content.tbody[i])])]

\* The kind of a parsed row as load_from_file reads it.
ParsedKind(r) == IF r.key = MarkerSection THEN "section"
                 ELSE IF r.key = MarkerCat THEN "cat" ELSE "kv"

\* A variant that keeps an empty title empty.
TitleOrDefault_Keep(title_text) == title_text

\* QLineEdit(title_text or "Neuer Abschnitt") in HeaderRow and CategoryRow.
TitleOrDefault(title_text) == IF title_text = <<>> THEN NeuerAbschnitt ELSE title_text

\* load_from_file: the widget built for one parsed row, with identity id.
\* An EntryRow shows the markup it is given: the editor is taken to render
\* its own markup unchanged.
LoadedRow(r, id) ==
    IF ParsedKind(r) = "section"
        THEN [id |-> id, kind |-> "section", text |-> TitleOrDefault(r.value), val |-> <<>>]
    ELSE IF ParsedKind(r) = "cat"
        THEN [id |-> id, kind |-> "cat", text |-> TitleOrDefault(r.value), val |-> <<>>]
    ELSE [id |-> id, kind |-> "kv", text |-> r.key, val |-> r.value]

\* ------------------------------------------------------------------ translator
\* Letters of the texts of the model, and the lower-case form of a character
\* (re.IGNORECASE, str.lower).  "e/" stands for U+00E9, "ae" for U+00E4, "oe"
\* for U+00F6, "ue" for U+00FC.
UpperLetters == {"A", "B", "C", "D", "E", "F", "G", "K", "N", "S", "T", "I", "O",
                 "L", "P", "W", "V", "U"}
LowerLetters == {"a", "b", "c", "d", "e", "f", "g", "h", "i", "k", "l", "m", "n", "o",
                 "p", "q", "r", "s", "t", "u", "v", "w", "x", "z", "e/", "ae", "oe", "ue", "sz", "SZ"}
Letters == UpperLetters \cup LowerLetters
LowerChar(c) ==
    CASE c = "A" -> "a" [] c = "B" -> "b" [] c = "C" -> "c" [] c = "D" -> "d"
      [] c = "E" -> "e" [] c = "F" -> "f" [] c = "G" -> "g" [] c = "K" -> "k"
      [] c = "N" -> "n" [] c = "S" -> "s" [] c = "T" -> "t" [] c = "I" -> "i"
      [] c = "O" -> "o" [] c = "L" -> "l" [] c = "P" -> "p" [] c = "W" -> "w"
      [] c = "V" -> "v" [] c = "U" -> "u"
      [] c = "SZ" -> "sz" [] OTHER -> c
Lower(t) == [i \in 1..Len(t) |-> LowerChar(t[i])]

\* The digits \d matches and the characters \w matches.
Digits == {"0", "1", "2", "3", "4", "5", "6", "7", "8", "9"}
WordChars == Letters \cup Digits \cup {"_"}

\* _FR_TRANSLATIONS: the entries for the two default headers.
_FR_TRANSLATIONS ==
    (DEFAULT_HEADER_LEFT :> <<"C", "a", "t", "e/", "g", "o", "r", "i", "e">>) @@
    (DEFAULT_HEADER_RIGHT :> <<"D", "e/", "t", "a", "i", "l", "s">>)

\* FR_POST_EDITS, as (source, replacement) pairs in dictionary order.
FR_POST_EDITS ==
    << <<(<<"p", "e", "t", "i", "t", "e", " ", "i", "m", "a", "g", "e">>),
         (<<"p", "l", "e", "i", "n", " ", "f", "o", "r", "m", "a", "t">>)>>,
       <<(<<"c", "r", "o", "p", " ", "f", "a", "c", "t", "e", "u", "r">>),
         (<<"f", "a", "c", "t", "e", "u", "r", " ", "d", "e", " ", "r", "e", "c", "a",
            "d", "r", "a", "g", "e">>)>> >>

\* dict(a); .update(b): the entries of b override those of a.
DictUpdate(a, b) == b @@ a

\* dict(a); .update(b) on tables kept as (source, replacement) pairs in
\* dictionary order: an entry of a keeps its place and takes b's replacement,
\* the other entries of b follow.
PairsUpdate(a, b) ==
    LET override(src, dflt) ==
            IF \E j \in 1..Len(b) : b[j][1] = src
            THEN b[CHOOSE j \in 1..Len(b) :
                       b[j][1] = src /\ \A m \in (j + 1)..Len(b) : b[m][1] # src][2]
            ELSE dflt
    IN [i \in 1..Len(a) |-> <<a[i][1], override(a[i][1], a[i][2])>>]
       \o SelectSeq(b, LAMBDA e : \A i \in 1..Len(a) : a[i][1] # e[1])

\* re.sub("(?i)" + re.escape(src), dst, text): every non-overlapping match
\* from the left, without regard to case.
RECURSIVE SubIgnoreCase(_, _, _)
SubIgnoreCase(text, src, dst) ==
    IF Len(text) < Len(src) THEN text
    ELSE IF Lower(SubSeq(text, 1, Len(src))) = Lower(src)
         THEN dst \o SubIgnoreCase(SubSeq(text, Len(src) + 1, Len(text)), src, dst)
         ELSE <<Head(text)>> \o SubIgnoreCase(Tail(text), src, dst)

\* _apply_post_edits: each pair in turn; an empty source is passed over.
RECURSIVE _apply_post_edits(_, _)
_apply_post_edits(text, post_edits) ==
    IF text = <<>> \/ post_edits = <<>> THEN text
    ELSE LET src == Head(post_edits)[1]
             dst == Head(post_edits)[2]
             out == IF src = <<>> THEN text ELSE SubIgnoreCase(text, src, dst)
         IN IF Tail(post_edits) = <<>> THEN out
            ELSE IF out = <<>> THEN out ELSE _apply_post_edits(out, Tail(post_edits))

\* GERMAN_HINT_RE, the character class of its second alternative.
GermanHint(t) == \E i \in 1..Len(t) : t[i] \in {"ae", "sz"}

\* _should_translate_text: no text without a letter is translated; a German
\* hint decides; otherwise the language classifier's verdict does.
_should_translate_text(text, block_german, verdict) ==
    /\ Strip(text) # <<>>
    /\ \E i \in 1..Len(text) : text[i] \in Letters
    /\ (block_german \/ GermanHint(Strip(text)) \/ verdict)

\* PROTECTED_TOKEN_PATTERNS, compiled with IGNORECASE.  The texts of the
\* model hold no digit; on such a text every alternative but "SD" matches
\* only where the first one, tried first, matches: [A-Z0-9][A-Z0-9\-_/\.]{2,}
\* between word boundaries.
NonAscii == {"e/", "ae", "oe", "ue", "sz", "SZ"}
AsciiAlnum == (Letters \ NonAscii) \cup Digits
TokenChars == AsciiAlnum \cup {"-", "_", "/", "."}

\* \b before position i of t (i may be Len(t) + 1).
WordBoundary(t, i) ==
    (i > 1 /\ t[i - 1] \in WordChars) # (i <= Len(t) /\ t[i] \in WordChars)

\* The length of the run of token characters that follows position i of t.
RECURSIVE TokenRun(_, _)
TokenRun(t, i) ==
    IF i < Len(t) /\ t[i + 1] \in TokenChars THEN 1 + TokenRun(t, i + 1) ELSE 0

\* The longest k of at least 2 and at most run with a word boundary after
\* position i + k of t, 0 for none: what {2,} followed by \b settles on.
RECURSIVE LongestEnd(_, _, _)
LongestEnd(t, i, run) ==
    IF run < 2 THEN 0
    ELSE IF WordBoundary(t, i + run + 1) THEN run
    ELSE LongestEnd(t, i, run - 1)

AcronymLen(t, i, k) == IF k = 0 THEN 0 ELSE 1 + k

\* The alternative SD of the eighth pattern.
SdLen(t, i) ==
    IF i < Len(t) /\ Lower(SubSeq(t, i, i + 1)) = <<"s", "d">> /\ WordBoundary(t, i + 2)
    THEN 2 ELSE 0

FirstOf(a, b) == IF a # 0 THEN a ELSE b

\* The length of the match of _PROTECTED_RE at position i of t, 0 for none.
ProtectedMatchLen(t, i) ==
    IF ~WordBoundary(t, i) THEN 0
    ELSE FirstOf(IF t[i] \in AsciiAlnum
                 THEN AcronymLen(t, i, LongestEnd(t, i, TokenRun(t, i))) ELSE 0,
                 SdLen(t, i))

\* The placeholders <<T0>>, <<T1>>, ... the masked text holds, one atom each.
Placeholders == <<"<<T0>>", "<<T1>>", "<<T2>>">>

\* _mask_protected_tokens: the matches from the left, each replaced by the
\* placeholder of its index, and the list of the matched texts.
Masked(head, rest) == [text |-> head \o rest.text, tokens |-> rest.tokens]

RECURSIVE MaskFrom(_, _, _)
MaskStep(t, i, tokens, n) ==
    IF n = 0 THEN Masked(<<t[i]>>, MaskFrom(t, i + 1, tokens))
    ELSE Masked(<<Placeholders[Len(tokens) + 1]>>,
                MaskFrom(t, i + n, Append(tokens, SubSeq(t, i, i + n - 1))))

MaskFrom(t, i, tokens) ==
    IF i > Len(t) THEN [text |-> <<>>, tokens |-> tokens]
    ELSE MaskStep(t, i, tokens, ProtectedMatchLen(t, i))

_mask_protected_tokens(text) == MaskFrom(text, 1, <<>>)

\* _unmask_protected_tokens: the placeholder of each index is replaced by
\* its token, index by index.
RECURSIVE UnmaskFrom(_, _, _)
UnmaskFrom(out, tokens, i) ==
    IF i > Len(tokens) THEN out
    ELSE UnmaskFrom(ReplaceChar(out, Placeholders[i], tokens[i]), tokens, i + 1)

_unmask_protected_tokens(text, tokens) == UnmaskFrom(text, tokens, 1)

\* What the translation engine returns for a text: nothing, the text itself,
\* a rendering of it, a rendering that leaves the placeholders out, or one
\* that writes them differently.  An engine that raises leaves the caller, by
\* its "except Exception: pass", where an empty result leaves it.
IsPlaceholder(c) == \E i \in 1..Len(Placeholders) : Placeholders[i] = c
EngineOutput(text, behaviour) ==
    IF behaviour \in {"empty", "raises"} THEN <<>>
    ELSE IF behaviour = "same" THEN text
    ELSE IF behaviour = "french" THEN <<"f", "r", " ">> \o text
    ELSE IF behaviour = "drop"
    THEN <<"f", "r", " ">> \o SelectSeq(text, LAMBDA c : ~IsPlaceholder(c))
    ELSE <<"f", "r", " ">> \o [i \in 1..Len(text) |->
                                 IF IsPlaceholder(text[i]) THEN "<< T >>" ELSE text[i]]

\* A variant that asks the classifier and the engine before the dictionary.
translate_plain_text_EngineFirst(text, env, block_german) ==
    IF env.argos /\ _should_translate_text(text, block_german, env.verdict)
    THEN [text |-> _apply_post_edits(EngineOutput(text, env.behaviour), env.post_edits),
          did |-> TRUE, was_german |-> TRUE]
    ELSE IF text \in DOMAIN env.mapping
    THEN [text |-> _apply_post_edits(env.mapping[text], env.post_edits),
          did |-> TRUE, was_german |-> FALSE]
    ELSE [text |-> _apply_post_edits(text, env.post_edits), did |-> FALSE,
          was_german |-> FALSE]

\* _translate_plain_text, the engine's part: the masked text is translated;
\* a result that is not empty is unmasked and post-edited.
AfterEngine(translated, tokens, post_edits) ==
    IF translated = <<>> THEN [some |-> FALSE, text |-> <<>>]
    ELSE [some |-> TRUE,
          text |-> _apply_post_edits(_unmask_protected_tokens(translated, tokens),
                                     post_edits)]

ThroughEngine(masked, env) ==
    AfterEngine(EngineOutput(masked.text, env.behaviour), masked.tokens, env.post_edits)

\* _translate_plain_text, its returns once the text is known to be German:
\* the engine's result when it differs from the text, else the post-edited
\* text.
GermanResult(out, text, edited) ==
    IF out.some /\ Strip(out.text) # Strip(text)
    THEN [text |-> out.text, did |-> TRUE, was_german |-> TRUE]
    ELSE [text |-> edited, did |-> edited # text, was_german |-> TRUE]

\* The translation environment of one export job: the merged dictionary, the
\* post-edit table, whether an engine is ready, the classifier's verdict and
\* the engine's behaviour.
\* _translate_plain_text: (text, did_translate, was_german).
_translate_plain_text(text, env, block_german) ==
    IF text \in DOMAIN env.mapping
    THEN [text |-> _apply_post_edits(env.mapping[text], env.post_edits),
          did |-> TRUE, was_german |-> FALSE]
    ELSE LET edited == _apply_post_edits(text, env.post_edits)
         IN IF ~_should_translate_text(text, block_german, env.verdict)
            THEN [text |-> edited, did |-> edited # text, was_german |-> FALSE]
            ELSE IF ~env.argos
            THEN [text |-> edited, did |-> edited # text, was_german |-> TRUE]
            ELSE GermanResult(ThroughEngine(_mask_protected_tokens(text), env),
                              text, edited)

\* ExportWorker.run._translate_label
TranslateLabel(text, env) == _translate_plain_text(text, env, FALSE).text

\* The labels of a snapshot in the order the exporter translates them.
LabelsOf(snapshot, left_h, right_h) ==
    <<left_h, right_h>> \o [i \in 1..Len(snapshot) |-> snapshot[i].a]

\* ExportWorker.run: the labels that were German and were not translated,
\* each once, in order.
RECURSIVE MissingOf(_, _, _)
MissingOf(labels, env, acc) ==
    IF labels = <<>> THEN acc
    ELSE LET r == _translate_plain_text(Head(labels), env, FALSE)
             new == r.was_german /\ ~r.did
                    /\ \A i \in 1..Len(acc) : acc[i] # Head(labels)
         IN MissingOf(Tail(labels), env, IF new THEN Append(acc, Head(labels)) ELSE acc)

\* _translate_html_fragment: every text run between tags is translated on its
\* own with its surrounding white space kept; the markup is written back by
\* the HTML parser, which writes a line break as <br/>.
RECURSIVE TextRunLen(_, _)
TextRunLen(frag, n) ==
    IF n < Len(frag) /\ frag[n + 1] \notin TagAtoms THEN TextRunLen(frag, n + 1) ELSE n

TranslateNode(raw, env, block_german) ==
    IF Strip(raw) = <<>> THEN raw
    ELSE LET r == _translate_plain_text(Strip(raw), env, block_german)
             lead == SubSeq(raw, 1, Len(raw) - Len(LStrip(raw)))
             trail == SubSeq(raw, Len(RStrip(raw)) + 1, Len(raw))
         IN IF r.did THEN lead \o r.text \o trail ELSE raw

RECURSIVE TranslateNodes(_, _, _)
TranslateNodes(frag, env, block_german) ==
    IF frag = <<>> THEN <<>>
    ELSE IF Head(frag) \in TagAtoms
         THEN <<IF Head(frag) = "<br />" THEN "<br/>" ELSE Head(frag)>>
              \o TranslateNodes(Tail(frag), env, block_german)
         ELSE LET n == TextRunLen(frag, 0)
              IN TranslateNode(SubSeq(frag, 1, n), env, block_german)
                 \o TranslateNodes(SubSeq(frag, n + 1, Len(frag)), env, block_german)

\* The visible text of a fragment.
VisibleText(frag) == SelectSeq(frag, LAMBDA x : x \notin TagAtoms)

_translate_html_fragment(html, env) ==
    IF html = <<>> THEN html
    ELSE TranslateNodes(html, env,
            Strip(VisibleText(html)) # <<>>
            /\ (GermanHint(VisibleText(html)) \/ env.verdict))

\* ------------------------------------------------------------------ table
\* The pair of functions _build_table_from_snapshot is called with: the two
\* identities "lambda s: s", or _translate_label and _translate_value of a
\* worker with its environment.
Identity == [identity |-> TRUE]
Translating(env) == [identity |-> FALSE, env |-> env]

translate_label_fn(translator, text) ==
    IF translator.identity THEN text ELSE TranslateLabel(text, translator.env)

translate_value_fn(translator, value_html) ==
    IF translator.identity THEN value_html
    ELSE _translate_html_fragment(value_html, translator.env)

\* _build_table_from_snapshot, the body of its loop.
BuildRow(item, translator) ==
    IF item.kind = "section" THEN <<SectionTr(_escape_html(translate_label_fn(translator, item.a)))>>
    ELSE IF item.kind = "cat" THEN <<CatTr(_escape_html(translate_label_fn(translator, item.a)))>>
    ELSE LET k == _escape_html(translate_label_fn(translator, item.a))
             v == translate_value_fn(translator, item.b)
         IN IF SkipEntry(k, v) THEN <<>> ELSE <<KvTr(k, v)>>

\* A variant that embeds the snapshot comment after the table.
AfterTable_Embed(snapshot, left_h, right_h) ==
    [present |-> TRUE, json_ok |-> TRUE, ver |-> 2, left |-> left_h, right |-> right_h,
     rows |-> [i \in 1..Len(snapshot) |->
        [mapping |-> TRUE, type |-> snapshot[i].kind,
         title |-> snapshot[i].a, key |-> snapshot[i].a, value_html |-> snapshot[i].b]]]

\* What the exporter writes after </table>: nothing.
AfterTable(snapshot, left_h, right_h) == NoSnapshot

\* _build_table_from_snapshot: the style block, the table with its two header
\* cells, and one <tr> per item that is not skipped.  Nothing follows </table>.
_build_table_from_snapshot(snapshot, left_h, right_h, translator) ==
    [exists |-> TRUE,
     style |-> TRUE,
     thead |-> <<_escape_html(translate_label_fn(translator, left_h)),
                 _escape_html(translate_label_fn(translator, right_h))>>,
     tbody |-> FlattenSeq([i \in 1..Len(snapshot) |->
                  BuildRow(snapshot[i], translator)]),
     snapshot |-> AfterTable(snapshot, left_h, right_h)]

\* _normalize_for_paste applied to the whole text of a file.
NormalizeFile(f) ==
    [f EXCEPT !.thead = [i \in DOMAIN f.thead |-> _normalize_for_paste(f.thead[i])],
              !.tbody = [i \in DOMAIN f.tbody |->
                  [f.tbody[i] EXCEPT !.th_text = _normalize_for_paste(@),
                                     !.td_html = _normalize_for_paste(@)]]]

\* ------------------------------------------------------------------ state
VARIABLES
    rows_widgets,     \* MainWindow.rows_widgets: the row widgets in display order
    rows_v,           \* MainWindow.rows_v: the layout, as the identities of its widgets
    hdr_left,         \* text of the left header line edit
    hdr_right,        \* text of the right header line edit
    input_mode,       \* MainWindow.input_mode: "kv" or "section"
    dialog,           \* the message box the last handler showed, or "none"
    last_op,          \* the last row operation: its name, target and the rows before it
    files,            \* the file system: path -> content
    written_from,     \* path -> the snapshot and headers the file was built from
    trail,            \* export/import history of the file at "path"
    install,          \* the installation: translation tables, engine and classifier
    export_jobs,      \* the ExportWorker threads that have not been reaped
    scrape            \* the scrape job: GUI fields, the ScrapeWorker and its signals

vars == <<rows_widgets, rows_v, hdr_left, hdr_right, input_mode, dialog, last_op, files,
          written_from, trail, install, export_jobs, scrape>>

Paths == {"path", "path_de", "path_fr"}

NoOp == [op |-> "none", id |-> 0, before |-> <<>>]
NoTrail == [stage |-> "fresh", first |-> NoFile]
NoScrape == [worker |-> FALSE]

\* The smallest identity no live row widget has.
NewId(rows) == CHOOSE n \in 1..(Len(rows) + 1) :
    /\ \A i \in 1..Len(rows) : rows[i].id # n
    /\ \A m \in 1..(n - 1) : \E i \in 1..Len(rows) : rows[i].id = m

\* The layout that shows the row widgets in the order of the list.
LayoutOf(rows) == [i \in 1..Len(rows) |-> rows[i].id]

\* The document as the exporter reads it off the widgets.
DocOf(rows, left, right) ==
    [left |-> HeaderOrDefault(left, DEFAULT_HEADER_LEFT),
     right |-> HeaderOrDefault(right, DEFAULT_HEADER_RIGHT),
     rows |-> TakeSnapshot(rows)]

\* export_table_only with "only German" checked: the text written to the file.
SingleExport(rows, left, right) ==
    LET left_h == HeaderOrDefault(left, DEFAULT_HEADER_LEFT)
        right_h == HeaderOrDefault(right, DEFAULT_HEADER_RIGHT)
        snapshot == TakeSnapshot(rows)
        out == _build_table_from_snapshot(snapshot, left_h, right_h, Identity)
    IN NormalizeFile(out)

\* ------------------------------------------------------------------ export, import
\* Frame of the variables the export and import handlers leave alone.
GuiOnly == UNCHANGED <<install, scrape>>

\* export_table_only, "only German" checked: build, normalize, write.  A
\* failed write shows "Speicherfehler" and changes nothing else.
ExportSingle ==
    /\ \E ok \in BOOLEAN :
        LET out == SingleExport(rows_widgets, hdr_left, hdr_right)
        IN IF ok
           THEN /\ files' = [files EXCEPT !["path"] = out]
                /\ written_from' = [written_from EXCEPT
                                      !["path"] = DocOf(rows_widgets, hdr_left, hdr_right)]
                /\ trail' = IF last_op.op = "load" /\ last_op.id = "path"
                               /\ trail.stage = "exported"
                            THEN [trail EXCEPT !.stage = "reexported"]
                            ELSE [stage |-> "exported", first |-> out]
                /\ dialog' = "none"
           ELSE /\ dialog' = "Speicherfehler"
                /\ UNCHANGED <<files, written_from, trail>>
    /\ last_op' = [op |-> "export", id |-> 0, before |-> <<>>]
    /\ UNCHANGED <<rows_widgets, rows_v, hdr_left, hdr_right, input_mode, export_jobs>>
    /\ GuiOnly

\* export_table_only, two languages: take the snapshot and start a worker.
\* The handler tests nothing about a worker started before; cap is the
\* number of workers a specification lets live at once.
ExportStartUpTo(cap) ==
    /\ Len(export_jobs) < cap
    /\ export_jobs' = Append(export_jobs,
          [snapshot |-> TakeSnapshot(rows_widgets),
           left_h |-> HeaderOrDefault(hdr_left, DEFAULT_HEADER_LEFT),
           right_h |-> HeaderOrDefault(hdr_right, DEFAULT_HEADER_RIGHT),
           pc |-> "running", emits |-> 0, write |-> "none", edited |-> FALSE,
           result |-> [ok |-> FALSE, missing |-> <<>>, argos |-> FALSE]])
    /\ dialog' = "none"
    /\ UNCHANGED <<rows_widgets, rows_v, hdr_left, hdr_right, input_mode, last_op, files,
                   written_from, trail>>
    /\ GuiOnly

\* export_table_only with the number of workers the specifications let live
\* at once.
ExportStart == ExportStartUpTo(MaxExportJobs)

\* ExportWorker.run: the merged dictionary, the post-edit table and the
\* engines of the installation.
TranslationEnv ==
    [mapping |-> DictUpdate(_FR_TRANSLATIONS, install.translations_fr),
     post_edits |-> PairsUpdate(FR_POST_EDITS, install.post_edits),
     argos |-> install.argos,
     verdict |-> install.verdict,
     behaviour |-> install.behaviour]

\* The target-language text of a job under one environment.
TargetExport(job, env) ==
    _build_table_from_snapshot(job.snapshot, job.left_h, job.right_h, Translating(env))

\* ExportWorker.run: both texts are built, then the source-language file is
\* written, then the target-language file; the first failure ends the job
\* with ok = False.  The result is emitted in every case.
\* A variant whose emit is the last statement of the try block.
EmitsAfter_InsideTry(write) == IF write = "ok" THEN 1 ELSE 0

\* ExportWorker.run: how often finished is emitted; the emit follows the
\* try statement, whose handler catches the failure of a write.
EmitsAfter(write) == IF write \in {"ok", "fail_de", "fail_fr"} THEN 1 ELSE 0

\* A variant whose worker keeps the row widgets and the header fields
\* themselves and reads them when it runs.
WorkerInput_Live(job, rows, left, right) ==
    [snapshot |-> TakeSnapshot(rows),
     left_h |-> HeaderOrDefault(left, DEFAULT_HEADER_LEFT),
     right_h |-> HeaderOrDefault(right, DEFAULT_HEADER_RIGHT)]

\* ExportWorker.__init__ and run: what the worker builds its tables from is
\* the list of tuples and the two header texts it was constructed with; the
\* rows and header fields of the main window (rows, left, right) are not read.
WorkerInput(job, rows, left, right) ==
    [snapshot |-> job.snapshot, left_h |-> job.left_h, right_h |-> job.right_h]

\* ExportWorker.run: tables and engines are loaded, both tables built, the
\* two files written and the result emitted.  job.write records how the
\* writes went, job.edited whether the main window held other rows or
\* headers than the job's when the worker ran.
ExportWorkerRun(j) ==
    /\ j \in 1..Len(export_jobs)
    /\ export_jobs[j].pc = "running"
    /\ \E write \in {"ok", "fail_de", "fail_fr"} :
        LET job == export_jobs[j]
            inp == WorkerInput(job, rows_widgets, hdr_left, hdr_right)
            env == TranslationEnv
            out == NormalizeFile(_build_table_from_snapshot(
                       inp.snapshot, inp.left_h, inp.right_h, Identity))
            out_fr == TargetExport(inp, env)
            src == [left |-> inp.left_h, right |-> inp.right_h, rows |-> inp.snapshot]
        IN /\ files' = IF write = "ok"
                           THEN [files EXCEPT !["path_de"] = out, !["path_fr"] = out_fr]
                       ELSE IF write = "fail_fr"
                           THEN [files EXCEPT !["path_de"] = out]
                       ELSE files
           /\ written_from' = IF write = "ok"
                                  THEN [written_from EXCEPT !["path_de"] = src,
                                                            !["path_fr"] = src]
                              ELSE IF write = "fail_fr"
                                  THEN [written_from EXCEPT !["path_de"] = src]
                              ELSE written_from
           /\ export_jobs' = [export_jobs EXCEPT ![j] =
                  [job EXCEPT !.pc = IF EmitsAfter(write) > 0 THEN "emitted" ELSE "ended",
                              !.emits = @ + EmitsAfter(write),
                              !.write = write,
                              !.edited =
                                  \/ TakeSnapshot(rows_widgets) # job.snapshot
                                  \/ HeaderOrDefault(hdr_left, DEFAULT_HEADER_LEFT)
                                        # job.left_h
                                  \/ HeaderOrDefault(hdr_right, DEFAULT_HEADER_RIGHT)
                                        # job.right_h,
                              !.result = [ok |-> write = "ok",
                                          missing |-> IF write = "ok"
                                              THEN MissingOf(LabelsOf(inp.snapshot,
                                                       inp.left_h, inp.right_h), env, <<>>)
                                              ELSE <<>>,
                                          argos |-> env.argos]]]
    /\ UNCHANGED <<rows_widgets, rows_v, hdr_left, hdr_right, input_mode, dialog, last_op, trail>>
    /\ GuiOnly

\* _on_export_finished: the queued result reaches the main window.
OnExportFinished(j) ==
    /\ j \in 1..Len(export_jobs)
    /\ export_jobs[j].pc = "emitted"
    /\ dialog' = IF ~export_jobs[j].result.ok THEN "Speicherfehler"
                 ELSE IF export_jobs[j].result.missing # <<>> THEN "Fehlende Uebersetzungen"
                 ELSE "none"
    /\ export_jobs' = [i \in 1..(Len(export_jobs) - 1) |->
                          IF i < j THEN export_jobs[i] ELSE export_jobs[i + 1]]
    /\ UNCHANGED <<rows_widgets, rows_v, hdr_left, hdr_right, input_mode, last_op, files,
                   written_from, trail>>
    /\ GuiOnly

\* load_from_file: read, parse, set the headers, replace every row.  A file
\* that cannot be read shows "Ladefehler" and changes nothing.
LoadFromFile(p) ==
    /\ files[p].exists
    /\ \E readable \in BOOLEAN :
        IF readable
        THEN LET parsed == _parse_specs_file(files[p])
             IN /\ hdr_left' = (IF parsed.left = <<>> THEN DEFAULT_HEADER_LEFT
                                ELSE parsed.left)
                /\ hdr_right' = (IF parsed.right = <<>> THEN DEFAULT_HEADER_RIGHT
                                 ELSE parsed.right)
                /\ rows_widgets' = [i \in 1..Len(parsed.rows) |-> LoadedRow(parsed.rows[i], i)]
                /\ rows_v' = [i \in 1..Len(parsed.rows) |-> i]
                /\ dialog' = "none"
                /\ last_op' = [op |-> "load", id |-> p, before |-> rows_widgets]
        ELSE /\ dialog' = "Ladefehler"
             /\ last_op' = [op |-> "load_failed", id |-> p, before |-> rows_widgets]
             /\ UNCHANGED <<rows_widgets, rows_v, hdr_left, hdr_right>>
    /\ UNCHANGED <<input_mode, files, written_from, trail, export_jobs>>
    /\ GuiOnly

\* ------------------------------------------------------------------ documents
\* The rows documents are drawn from: a section whose title the user cleared,
\* the specification's escaping example as a section title, a category, an
\* entry with neither key nor value, a plain entry with bold markup, an entry
\* whose key is the text of the importer's section marker, and an entry with
\* a sharp s in its key and no value.
ExampleText == <<"A", " ", "&", " ", "B", " ", "<", "C", ">">>
RowSamples ==
    { [kind |-> "section", text |-> <<>>, val |-> <<>>],
      [kind |-> "section", text |-> ExampleText, val |-> <<>>],
      [kind |-> "cat", text |-> <<"T">>, val |-> <<>>],
      [kind |-> "kv", text |-> <<>>, val |-> <<>>],
      [kind |-> "kv", text |-> <<"k">>, val |-> <<"<b>", "v", "</b>">>],
      [kind |-> "kv", text |-> MarkerSection, val |-> <<"v">>],
      [kind |-> "kv", text |-> <<"G", "r", "o", "sz", "e">>, val |-> <<>>] }

WithIds(rs) == [i \in 1..Len(rs) |->
    [id |-> i, kind |-> rs[i].kind, text |-> rs[i].text, val |-> rs[i].val]]

HeaderSamples == { <<DEFAULT_HEADER_LEFT, DEFAULT_HEADER_RIGHT>>, <<(<<"a", "&">>), (<<>>)>> }

\* translations_fr.json: absent, or one entry that maps the label "k" to "".
DictSamples == { <<>>, (<<"k">> :> <<>>) }

\* An installation: the dictionary file, whether a translation engine can be
\* made ready, the language classifier's verdict on a text without German
\* hints, and what the engine returns.  Without an engine nothing is returned.
NoEngines == [translations_fr |-> <<>>, post_edits |-> <<>>, argos |-> FALSE,
              verdict |-> FALSE, behaviour |-> "empty"]
Installations ==
    { i \in [translations_fr : DictSamples, post_edits : {<<>>}, argos : BOOLEAN,
             verdict : BOOLEAN, behaviour : {"empty", "same", "french"}] :
        ~i.argos => i.behaviour = "empty" }

\* The state shared by every initial state: no file, no job, no dialog.
InitRest ==
    /\ rows_v = LayoutOf(rows_widgets)
    /\ input_mode = "kv"
    /\ dialog = "none"
    /\ last_op = NoOp
    /\ files = [p \in Paths |-> NoFile]
    /\ written_from = [p \in Paths |-> <<>>]
    /\ trail = NoTrail
    /\ export_jobs = <<>>
    /\ scrape = NoScrape

InitRoundTrip ==
    /\ \E rs \in SeqUpTo(RowSamples, MaxDocRows) : rows_widgets = WithIds(rs)
    /\ \E h \in HeaderSamples : hdr_left = h[1] /\ hdr_right = h[2]
    /\ install = NoEngines
    /\ InitRest

\* The rows documents are drawn from for the two-language export: a section,
\* a category, an entry with neither key nor value, an entry with a key
\* only and an entry with a value only.
ExportRowSamples ==
    { [kind |-> "section", text |-> <<"S">>, val |-> <<>>],
      [kind |-> "cat", text |-> <<"T">>, val |-> <<>>],
      [kind |-> "kv", text |-> <<>>, val |-> <<>>],
      [kind |-> "kv", text |-> <<"k">>, val |-> <<>>],
      [kind |-> "kv", text |-> <<>>, val |-> <<"v", "<br />", "sz">>] }

InitExport ==
    /\ \E rs \in SeqUpTo(ExportRowSamples, MaxDocRows) : rows_widgets = WithIds(rs)
    /\ hdr_left = DEFAULT_HEADER_LEFT
    /\ hdr_right = <<>>
    /\ install \in Installations
    /\ InitRest

\* Export to one file and import of that file, in any order and number.
NextRoundTrip ==
    \/ ExportSingle
    \/ LoadFromFile("path")

SpecRoundTrip == InitRoundTrip /\ [][NextRoundTrip]_vars

\* Both kinds of export of a document, with no import.
NextExport ==
    \/ ExportSingle
    \/ ExportStart
    \/ \E j \in 1..MaxExportJobs : ExportWorkerRun(j)
    \/ \E j \in 1..MaxExportJobs : OnExportFinished(j)

SpecExport == InitExport /\ [][NextExport]_vars

\* ------------------------------------------------------------------ claims C1..C4
\* C1: importing the text produced by exporting a document yields that
\* document again: the same headers and the same rows, kind by kind and text
\* by text, in the same order.
C1_RoundTrip ==
    (last_op.op = "load" /\ last_op.id = "path")
        => DocOf(rows_widgets, hdr_left, hdr_right) = written_from["path"]

\* C2: exporting, importing the exported file and exporting again without an
\* edit writes the same text as the first export.
C2_IdempotentReexport ==
    trail.stage = "reexported" => files["path"] = trail.first

TrKindOf(tr) == IF tr.cls = "section" THEN "section"
                ELSE IF tr.cls = "cat" THEN "cat" ELSE "kv"

IsEmptyEntry(item) == item.kind = "kv" /\ item.a = <<>> /\ item.b = <<>>

\* C4: in every output the exporter writes no <tr> for an entry whose key
\* and value are both empty and exactly one <tr> for every other row of the
\* snapshot, in snapshot order and of the row's kind; in the outputs built
\* without translation the <tr> holds the row's texts.
C4_SkipEmpty ==
    \A p \in Paths : files[p].exists =>
        LET kept == SelectSeq(written_from[p].rows, LAMBDA it : ~IsEmptyEntry(it))
            body == files[p].tbody
        IN /\ Len(body) = Len(kept)
           /\ \A i \in 1..Len(kept) :
                /\ TrKindOf(body[i]) = kept[i].kind
                /\ p # "path_fr" =>
                      /\ Unescape(body[i].th_text) = _normalize_for_paste(kept[i].a)
                      /\ kept[i].kind = "kv" =>
                            body[i].td /\ body[i].td_html = _normalize_for_paste(kept[i].b)

\* C5: the two files of a two-language export written from one snapshot hold
\* the same number of body rows, of the same kinds in the same order.
C5_SameRows ==
    (/\ files["path_de"].exists
     /\ files["path_fr"].exists
     /\ written_from["path_de"] = written_from["path_fr"])
        => LET de == files["path_de"].tbody
               fr == files["path_fr"].tbody
           IN /\ Len(de) = Len(fr)
              /\ \A i \in 1..Len(de) : TrKindOf(de[i]) = TrKindOf(fr[i])

\* ------------------------------------------------------------------ escaping
\* The characters the texts of the escaping runs are made of: the four the
\* exporter escapes, the pieces of a written-out entity, a blank and sharp s.
EscAlphabet == {"&", "<", ">", "\"", ";", "l", "t", " ", "sz"}
AmpText == <<"&", "a", "m", "p", ";">>
EscTexts == SeqUpTo(EscAlphabet, MaxTextLen) \cup {ExampleText, AmpText}

\* One row of any kind carrying the text, with the same text as left header.
InitEscape ==
    /\ \E t \in EscTexts, k \in {"section", "cat", "kv"} :
          /\ rows_widgets = WithIds(<<[kind |-> k, text |-> t,
                                       val |-> IF k = "kv" THEN <<"v">> ELSE <<>>]>>)
          /\ hdr_left = t
    /\ hdr_right = DEFAULT_HEADER_RIGHT
    /\ install = NoEngines
    /\ InitRest

NextEscape ==
    \/ ExportSingle
    \/ LoadFromFile("path")

SpecEscape == InitEscape /\ [][NextEscape]_vars

\* A text with each of & < > " written as its entity, character by character.
Entities(t) ==
    FlattenSeq([i \in 1..Len(t) |->
        CASE t[i] = "&" -> <<"&", "a", "m", "p", ";">>
          [] t[i] = "<" -> <<"&", "l", "t", ";">>
          [] t[i] = ">" -> <<"&", "g", "t", ";">>
          [] t[i] = "\"" -> <<"&", "q", "u", "o", "t", ";">>
          [] OTHER -> <<t[i]>>])

\* A text with sharp s written as ss.
WithoutEszett(t) ==
    FlattenSeq([i \in 1..Len(t) |->
        CASE t[i] = "sz" -> <<"s", "s">>
          [] t[i] = "SZ" -> <<"S", "S">>
          [] OTHER -> <<t[i]>>])

\* The title of a parsed section or category row, the key of an entry.
ParsedText(r) == IF r.key \in {MarkerSection, MarkerCat} THEN r.value ELSE r.key

LegacyTrSamples ==
    { SectionTr(<<"S">>),
      CatTr(<<"T">>),
      KvTr(<<"k">>, <<"v">>),
      KvTr(<<"a", "&", "a", "m", "p", ";">>, <<"<b>", "v", "</b>">>),
      KvTr(MarkerSection, <<"v">>),
      KvTr(<<"k">>, <<"<span class=section>", "v", "</span>">>) }

LegacyHeadSamples ==
    { <<(<<"L">>), (<<"R">>)>>, <<(<<"a", "&", "l", "t", ";">>), (<<" ", "R">>)>> }

\* A file without snapshot comment is on disk; the editor is empty.
InitLegacy ==
    /\ \E head \in LegacyHeadSamples, body \in SeqUpTo(LegacyTrSamples, MaxDocRows) :
          files = [p \in Paths |->
                      IF p = "path"
                      THEN [exists |-> TRUE, style |-> FALSE, thead |-> head,
                            tbody |-> body, snapshot |-> NoSnapshot]
                      ELSE NoFile]
    /\ rows_widgets = <<>>
    /\ rows_v = <<>>
    /\ hdr_left = DEFAULT_HEADER_LEFT
    /\ hdr_right = DEFAULT_HEADER_RIGHT
    /\ install = NoEngines
    /\ input_mode = "kv"
    /\ dialog = "none"
    /\ last_op = NoOp
    /\ written_from = [p \in Paths |-> <<>>]
    /\ trail = NoTrail
    /\ export_jobs = <<>>
    /\ scrape = NoScrape

NextLegacy == LoadFromFile("path")

SpecLegacy == InitLegacy /\ [][NextLegacy]_vars

\* C7: for a file with a two-cell <thead>, a <tbody> of section, category and
\* key/value rows and no snapshot comment, the importer returns the two header
\* texts and one row per <tr>, in document order, each of the kind its <tr>
\* has by its class and with its title, or its key and value; the editor then
\* shows one row of that kind per <tr>.
C7_LegacyFallback ==
    last_op.op = "load" =>
        LET f == files["path"]
            parsed == _parse_specs_file(f)
        IN /\ parsed.left = Unescape(Strip(f.thead[1]))
           /\ parsed.right = Unescape(Strip(f.thead[2]))
           /\ Len(parsed.rows) = Len(f.tbody)
           /\ Len(rows_widgets) = Len(f.tbody)
           /\ \A i \in 1..Len(f.tbody) :
                /\ ParsedKind(parsed.rows[i]) = TrKindOf(f.tbody[i])
                /\ rows_widgets[i].kind = TrKindOf(f.tbody[i])
                /\ ParsedText(parsed.rows[i]) = Unescape(Strip(f.tbody[i].th_text))
                /\ TrKindOf(f.tbody[i]) = "kv" =>
                      parsed.rows[i].value = Strip(f.tbody[i].td_html)

\* ------------------------------------------------------------------ editing
\* The position of the row widget with identity id in a list: list.index(row).
IndexOf(rows, id) == CHOOSE i \in 1..Len(rows) : rows[i].id = id

IsLive(rows, id) == \E i \in 1..Len(rows) : rows[i].id = id

\* rows[i], rows[j] = rows[j], rows[i]
Swap_Dup(rows, i, j) == [rows EXCEPT ![i] = rows[j]]

Swap(rows, i, j) == [rows EXCEPT ![i] = rows[j], ![j] = rows[i]]

\* A move up without the test of the index: Python's index -1 is the last row.
row_move_up_Unguarded(rows, idx) ==
    IF idx > 1 THEN Swap(rows, idx - 1, idx) ELSE Swap(rows, Len(rows), idx)

\* _row_move_up on the list, idx counted from 1: "if idx > 0".
row_move_up(rows, idx) == IF idx > 1 THEN Swap(rows, idx - 1, idx) ELSE rows

\* _row_move_down on the list: "if idx < len(self.rows_widgets) - 1".
row_move_down(rows, idx) == IF idx < Len(rows) THEN Swap(rows, idx + 1, idx) ELSE rows

\* list.remove(row)
row_remove(rows, idx) ==
    [i \in 1..(Len(rows) - 1) |-> IF i < idx THEN rows[i] ELSE rows[i + 1]]

\* The texts typed into the input row.
InputTexts == { <<>>, <<" ">>, <<"k">>, <<" ", "k">> }
InputValues == { <<>>, <<"v">> }

\* An operation on the rows, as the ghost record last_op keeps it.
RowOp(name, id) == [op |-> name, id |-> id, before |-> rows_widgets]

EditFrame == UNCHANGED <<hdr_left, hdr_right, files, written_from, trail,
                         install, export_jobs, scrape>>

\* confirm_current_input: in section mode a HeaderRow is appended and the
\* mode returns to "kv"; otherwise an EntryRow is appended.  An empty title
\* or key shows a message and adds nothing.
ConfirmCurrentInput ==
    /\ Len(rows_widgets) < MaxRows
    /\ \E text \in InputTexts, value \in InputValues :
        LET id == NewId(rows_widgets)
        IN IF input_mode = "section"
           THEN IF Strip(text) = <<>>
                THEN /\ dialog' = "Fehlender Abschnitt"
                     /\ last_op' = RowOp("rejected", 0)
                     /\ UNCHANGED <<rows_widgets, rows_v, input_mode>>
                ELSE /\ rows_widgets' = Append(rows_widgets,
                            [id |-> id, kind |-> "section",
                             text |-> TitleOrDefault(Strip(text)), val |-> <<>>])
                     /\ rows_v' = Append(rows_v, id)
                     /\ input_mode' = "kv"
                     /\ dialog' = "none"
                     /\ last_op' = RowOp("add", id)
           ELSE IF Strip(text) = <<>>
                THEN /\ dialog' = "Fehlender Schluessel"
                     /\ last_op' = RowOp("rejected", 0)
                     /\ UNCHANGED <<rows_widgets, rows_v, input_mode>>
                ELSE /\ rows_widgets' = Append(rows_widgets,
                            [id |-> id, kind |-> "kv", text |-> Strip(text), val |-> value])
                     /\ rows_v' = Append(rows_v, id)
                     /\ dialog' = "none"
                     /\ last_op' = RowOp("add", id)
                     /\ UNCHANGED input_mode
    /\ EditFrame

\* add_category_row: a CategoryRow titled "Neuer Abschnitt" is appended.
AddCategoryRow ==
    /\ Len(rows_widgets) < MaxRows
    /\ LET id == NewId(rows_widgets)
       IN /\ rows_widgets' = Append(rows_widgets,
                 [id |-> id, kind |-> "cat", text |-> TitleOrDefault(NeuerAbschnitt),
                  val |-> <<>>])
          /\ rows_v' = Append(rows_v, id)
          /\ last_op' = RowOp("add", id)
    /\ dialog' = "none"
    /\ UNCHANGED input_mode
    /\ EditFrame

\* _row_delete, requested by a row of the list: the row leaves the list and,
\* with setParent(None), the layout.
RowDelete(id) ==
    /\ IsLive(rows_widgets, id)
    /\ rows_widgets' = row_remove(rows_widgets, IndexOf(rows_widgets, id))
    /\ rows_v' = SelectSeq(rows_v, LAMBDA w : w # id)
    /\ last_op' = RowOp("delete", id)
    /\ dialog' = "none"
    /\ UNCHANGED input_mode
    /\ EditFrame

\* _row_move_up: the swap and _rebuild_rows_layout, or nothing at index 0.
RowMoveUp(id) ==
    /\ IsLive(rows_widgets, id)
    /\ LET idx == IndexOf(rows_widgets, id)
           moved == row_move_up(rows_widgets, idx)
       IN /\ rows_widgets' = moved
          /\ rows_v' = IF idx > 1 THEN LayoutOf(moved) ELSE rows_v
    /\ last_op' = RowOp("move_up", id)
    /\ dialog' = "none"
    /\ UNCHANGED input_mode
    /\ EditFrame

\* _row_move_down: the swap and _rebuild_rows_layout, or nothing at the end.
RowMoveDown(id) ==
    /\ IsLive(rows_widgets, id)
    /\ LET idx == IndexOf(rows_widgets, id)
           moved == row_move_down(rows_widgets, idx)
       IN /\ rows_widgets' = moved
          /\ rows_v' = IF idx < Len(rows_widgets) THEN LayoutOf(moved) ELSE rows_v
    /\ last_op' = RowOp("move_down", id)
    /\ dialog' = "none"
    /\ UNCHANGED input_mode
    /\ EditFrame

\* _on_clear_all: after "Yes" every row leaves list and layout and the input
\* row returns to "kv"; after "No" nothing changes.
OnClearAll ==
    /\ \E yes \in BOOLEAN :
        IF yes
        THEN /\ rows_widgets' = <<>>
             /\ rows_v' = <<>>
             /\ input_mode' = "kv"
             /\ last_op' = RowOp("clear", 0)
        ELSE /\ last_op' = RowOp("clear_declined", 0)
             /\ UNCHANGED <<rows_widgets, rows_v, input_mode>>
    /\ dialog' = "none"
    /\ EditFrame

\* _on_section_toggled and _set_input_mode.
OnSectionToggled(checked) ==
    /\ input_mode' = IF checked THEN "section" ELSE "kv"
    /\ last_op' = RowOp("toggle", 0)
    /\ dialog' = "none"
    /\ UNCHANGED <<rows_widgets, rows_v>>
    /\ EditFrame

\* The main window after construction: no rows, the default headers.
Init ==
    /\ rows_widgets = <<>>
    /\ hdr_left = DEFAULT_HEADER_LEFT
    /\ hdr_right = DEFAULT_HEADER_RIGHT
    /\ install = NoEngines
    /\ InitRest

Next ==
    \/ ConfirmCurrentInput
    \/ AddCategoryRow
    \/ \E id \in 1..MaxRows : RowDelete(id)
    \/ \E id \in 1..MaxRows : RowMoveUp(id)
    \/ \E id \in 1..MaxRows : RowMoveDown(id)
    \/ OnClearAll
    \/ \E checked \in BOOLEAN : OnSectionToggled(checked)

Spec == Init /\ [][Next]_vars

\* The identities of a row list, as a set.
IdsOf(rows) == {rows[i].id : i \in 1..Len(rows)}

\* C8: a move-up request on the first row and a move-down request on the last
\* row leave the row list as it was, the same rows in the same order and
\* number, leave the layout as it was, and end without an error message.
C8_MoveBoundaries ==
    LET before == last_op.before
        first == last_op.op = "move_up" /\ before[1].id = last_op.id
        last == last_op.op = "move_down" /\ before[Len(before)].id = last_op.id
    IN (last_op.op \in {"move_up", "move_down"} /\ (first \/ last))
        => /\ rows_widgets = before
           /\ rows_v = [i \in 1..Len(before) |-> before[i].id]
           /\ dialog = "none"

\* The first of at least two rows has been asked to move up.
C8_Witness ==
    /\ last_op.op = "move_up"
    /\ Len(last_op.before) >= 2
    /\ last_op.before[1].id = last_op.id

\* C9: every operation keeps the relative order of the rows it does not
\* target.  A delete removes the targeted row and no other; a move away from
\* the boundary swaps the targeted row with its neighbour and leaves every
\* other position alone; an add appends one new row at the end; a move
\* neither duplicates nor loses a row; and no identity ever occurs twice.
C9_OrderPreserved ==
    LET before == last_op.before
        after == rows_widgets
        n == Len(before)
        at == CHOOSE i \in 1..n : before[i].id = last_op.id
    IN /\ \A i, j \in 1..Len(after) : after[i].id = after[j].id => i = j
       /\ rows_v = [i \in 1..Len(after) |-> after[i].id]
       /\ last_op.op = "delete" =>
             /\ Len(after) = n - 1
             /\ \A i \in 1..(n - 1) : after[i] = IF i < at THEN before[i] ELSE before[i + 1]
       /\ (last_op.op = "move_up" /\ at > 1) =>
             /\ Len(after) = n
             /\ after[at - 1] = before[at]
             /\ after[at] = before[at - 1]
             /\ \A i \in 1..n : i \notin {at - 1, at} => after[i] = before[i]
       /\ (last_op.op = "move_down" /\ at < n) =>
             /\ Len(after) = n
             /\ after[at + 1] = before[at]
             /\ after[at] = before[at + 1]
             /\ \A i \in 1..n : i \notin {at, at + 1} => after[i] = before[i]
       /\ last_op.op \in {"move_up", "move_down"} =>
             /\ Len(after) = n
             /\ \A i \in 1..n : \E j \in 1..n : after[j] = before[i]
       /\ last_op.op = "add" =>
             /\ Len(after) = n + 1
             /\ \A i \in 1..n : after[i] = before[i]
             /\ after[n + 1].id = last_op.id
             /\ last_op.id \notin IdsOf(before)

\* The middle row of three has been moved up after a delete and an add.
C9_Witness ==
    /\ last_op.op = "move_up"
    /\ Len(last_op.before) = 3
    /\ last_op.before[2].id = last_op.id
    /\ rows_widgets[1].id = last_op.id
    /\ last_op.before[3].id < last_op.before[1].id

\* ------------------------------------------------------------------ scraping
\* SCRAPE_EXCLUDE_KEYS and SCRAPE_EXCLUDE_SECTIONS, character by character.
SCRAPE_EXCLUDE_KEYS ==
    { <<"e", "a", "n", "s", " ", "i", "n", "k", "l", ".", " ", "v", "a", "r", "i", "a", "n",
        "t", "e", "n", " ", "u", "n", "d", " ", "b", "u", "n", "d", "l", "e", "s">>,
      <<"u", "n", "v", "e", "r", "b", ".", " ", "p", "r", "e", "i", "s", "e", "m", "p", "f",
        "e", "h", "l", "u", "n", "g", "*">>,
      <<"i", "n", "t", "e", "r", "n", "e", "t", "-", "p", "r", "e", "i", "s">>,
      <<"o", "p", "t", "i", "o", "n", "a", "l", "e", "s", " ", "z", "u", "b", "e", "h", "oe",
        "r">> }
SCRAPE_EXCLUDE_SECTIONS ==
    { <<"w", "e", "i", "t", "e", "r", "f", "ue", "h", "r", "e", "n", "d", "e", " ", "l", "i",
        "n", "k", "s">> }

\* The key whose value becomes a list.
Besonderheiten ==
    <<"b", "e", "s", "o", "n", "d", "e", "r", "h", "e", "i", "t", "e", "n", " ", "u", "n", "d",
      " ", "s", "o", "n", "s", "t", "i", "g", "e", "s">>

\* str.splitlines on a text whose line ends are the atom "\n".
RECURSIVE SplitLines(_)
SplitLines(t) ==
    IF \A i \in 1..Len(t) : t[i] # "\n" THEN <<t>>
    ELSE LET k == CHOOSE i \in 1..Len(t) : t[i] = "\n" /\ \A j \in 1..(i - 1) : t[j] # "\n"
         IN <<SubSeq(t, 1, k - 1)>> \o SplitLines(SubSeq(t, k + 1, Len(t)))

\* Helpers of the string tests _clean_scraped_value makes.
IsDigits(t) == t # <<>> /\ \A i \in 1..Len(t) : t[i] \in Digits
StartsWith(t, p) == Len(t) >= Len(p) /\ SubSeq(t, 1, Len(p)) = p
EndsWith(t, p) == Len(t) >= Len(p) /\ SubSeq(t, Len(t) - Len(p) + 1, Len(t)) = p
Contains(t, p) == \E i \in 1..(Len(t) - Len(p) + 1) : SubSeq(t, i, i + Len(p) - 1) = p

\* re.search(r"\b\d+$", prev): prev ends with a run of digits that starts at
\* a word boundary.
EndsWithNumber(prev) ==
    \E k \in 1..Len(prev) :
        /\ IsDigits(SubSeq(prev, Len(prev) - k + 1, Len(prev)))
        /\ k = Len(prev) \/ prev[Len(prev) - k] \notin WordChars

\* re.match(r"^\d+p,?$", ln).
IsFrameRate(ln) ==
    LET body == IF ln # <<>> /\ ln[Len(ln)] = "," THEN SubSeq(ln, 1, Len(ln) - 1) ELSE ln
    IN Len(body) >= 2 /\ body[Len(body)] = "p" /\ IsDigits(SubSeq(body, 1, Len(body) - 1))

\* str.split(sep) for a separator of one character.
RECURSIVE SplitOn(_, _)
SplitOn(t, sep) ==
    IF \A i \in 1..Len(t) : t[i] # sep THEN <<t>>
    ELSE LET k == CHOOSE i \in 1..Len(t) : t[i] = sep /\ \A j \in 1..(i - 1) : t[j] # sep
         IN <<SubSeq(t, 1, k - 1)>> \o SplitOn(SubSeq(t, k + 1, Len(t)), sep)

\* re.sub(r"\s+", " ", ln).
RECURSIVE CollapseSpaces(_)
CollapseSpaces(t) ==
    IF t = <<>> THEN <<>>
    ELSE IF Head(t) \in Whitespace
    THEN <<" ">> \o CollapseSpaces(LStrip(t))
    ELSE <<Head(t)>> \o CollapseSpaces(Tail(t))

\* "\n".join(lines).
RECURSIVE JoinLines(_)
JoinLines(lines) ==
    IF lines = <<>> THEN <<>>
    ELSE IF Len(lines) = 1 THEN lines[1]
    ELSE lines[1] \o <<"\n">> \o JoinLines(Tail(lines))

Weitere == <<"w", "e", "i", "t", "e", "r", "e">>
Vergleichen == <<"v", "e", "r", "g", "l", "e", "i", "c", "h", "e", "n">>
CodecPrefix == <<"C", "o", "d", "e", "c", " ">>

\* _clean_scraped_value, one pass of the merge loop: the list merged after
\* the line ln.
MergeLine(merged, ln) ==
    LET low == Lower(ln)
        n == Len(merged)
        prev == merged[n]
        joined(s) == [merged EXCEPT ![n] = s]
    IN IF Contains(low, Weitere) THEN merged
       ELSE IF low = Vergleichen THEN merged
       ELSE IF ln \in {<<"(">>, <<")">>} THEN merged
       ELSE IF merged = <<>> THEN <<ln>>
       ELSE IF StartsWith(ln, <<"(">>) THEN joined(prev \o <<" ">> \o ln)
       ELSE IF IsDigits(ln) /\ EndsWith(prev, <<")">>) THEN joined(prev \o <<" ">> \o ln)
       ELSE IF StartsWith(ln, CodecPrefix)
       THEN joined(prev \o <<" ", "(">> \o ln \o <<")">>)
       ELSE IF EndsWith(RStrip(prev), <<"x">>) /\ ln[1] \in Digits
       THEN joined(prev \o <<" ">> \o ln)
       ELSE IF IsFrameRate(ln) THEN joined(prev \o <<" ">> \o ln)
       ELSE IF ln \in {<<"p">>, <<"P">>} /\ EndsWithNumber(prev) THEN joined(prev \o ln)
       ELSE IF EndsWith(prev, <<",">>) THEN joined(prev \o <<" ">> \o ln)
       ELSE Append(merged, ln)

RECURSIVE MergeLines(_, _)
MergeLines(merged, lines) ==
    IF lines = <<>> THEN merged
    ELSE MergeLines(MergeLine(merged, Head(lines)), Tail(lines))

\* The stripped, non-empty items of a list of texts.
StrippedItems(ts) ==
    SelectSeq([i \in 1..Len(ts) |-> Strip(ts[i])], LAMBDA it : it # <<>>)

\* _clean_scraped_value: the raw text of a value cell is normalised, split
\* into stripped non-empty lines, merged line by line, split at semicolons
\* and joined again with single spaces inside each line.
_clean_scraped_value(raw_text) ==
    LET lines == StrippedItems(SplitLines(_normalize_for_paste(raw_text)))
        merged == MergeLines(<<>>, lines)
        final_lines == FlattenSeq([i \in 1..Len(merged) |->
                                      StrippedItems(SplitOn(merged[i], ";"))])
    IN JoinLines([i \in 1..Len(final_lines) |-> CollapseSpaces(final_lines[i])])

\* ScrapeWorker.run: the value markup of a cleaned value, a list for the key
\* "Besonderheiten und Sonstiges" and escaped lines joined by <br /> otherwise.
ScrapedValueHtml(key, clean_val) ==
    IF Lower(key) = Besonderheiten
    THEN LET lines == SplitLines(clean_val)
             items == SelectSeq([i \in 1..Len(lines) |-> Strip(lines[i])],
                                LAMBDA it : it # <<>>)
         IN <<"<ul>">>
            \o FlattenSeq([i \in 1..Len(items) |->
                              <<"<li>">> \o _escape_html(items[i]) \o <<"</li>">>])
            \o <<"</ul>">>
    ELSE ReplaceChar(_escape_html(clean_val), "\n", <<"<br />">>)

\* A variant in which a header that is kept does not end a denylisted section.
ScrapeRow_StickySkip(tr, rows, skip_section) ==
    LET pass(rs, skip, progress) ==
            [rows |-> rs, skip |-> skip, progress |-> progress, cleaned |-> FALSE,
             clean_val |-> <<>>]
    IN IF tr.cell = "header"
       THEN LET title == _normalize_for_paste(Strip(tr.text))
            IN IF title = <<>> THEN pass(rows, skip_section, FALSE)
               ELSE IF Lower(title) \in SCRAPE_EXCLUDE_SECTIONS
               THEN pass(rows, TRUE, FALSE)
               ELSE pass(Append(rows, [kind |-> "section", a |-> title, b |-> <<>>]),
                         skip_section, FALSE)
       ELSE IF tr.cell = "kv"
       THEN LET key == _normalize_for_paste(Strip(tr.text))
                clean_val == _clean_scraped_value(tr.raw)
            IN IF skip_section \/ key = <<>> \/ Lower(key) \in SCRAPE_EXCLUDE_KEYS
               THEN pass(rows, skip_section, FALSE)
               ELSE [rows |-> IF clean_val = <<>> THEN rows
                              ELSE Append(rows, [kind |-> "kv", a |-> key,
                                                 b |-> ScrapedValueHtml(key, clean_val)]),
                     skip |-> skip_section, progress |-> TRUE, cleaned |-> TRUE,
                     clean_val |-> clean_val]
       ELSE pass(rows, skip_section, TRUE)

\* ScrapeWorker.run, one pass of the loop body over a <tr> of the data sheet:
\* the rows and the skip flag after it, and whether the pass reaches the
\* progress signal at its end or leaves with "continue", and the cleaned
\* value when the pass computes one.  A <tr> is given by
\* its cell kind, the text of its title or key cell and the raw text of its
\* value cell.
ScrapeRow(tr, rows, skip_section) ==
    LET pass(rs, skip, progress) ==
            [rows |-> rs, skip |-> skip, progress |-> progress, cleaned |-> FALSE,
             clean_val |-> <<>>]
    IN IF tr.cell = "header"
       THEN LET title == _normalize_for_paste(Strip(tr.text))
            IN IF title = <<>> THEN pass(rows, skip_section, FALSE)
               ELSE IF Lower(title) \in SCRAPE_EXCLUDE_SECTIONS
               THEN pass(rows, TRUE, FALSE)
               ELSE pass(Append(rows, [kind |-> "section", a |-> title, b |-> <<>>]),
                         FALSE, FALSE)
       ELSE IF tr.cell = "kv"
       THEN LET key == _normalize_for_paste(Strip(tr.text))
                clean_val == _clean_scraped_value(tr.raw)
            IN IF skip_section \/ key = <<>> \/ Lower(key) \in SCRAPE_EXCLUDE_KEYS
               THEN pass(rows, skip_section, FALSE)
               ELSE [rows |-> IF clean_val = <<>> THEN rows
                              ELSE Append(rows, [kind |-> "kv", a |-> key,
                                                 b |-> ScrapedValueHtml(key, clean_val)]),
                     skip |-> skip_section, progress |-> TRUE, cleaned |-> TRUE,
                     clean_val |-> clean_val]
       ELSE pass(rows, skip_section, TRUE)

\* A variant of the worker whose terminal signals go out as progress signals.
Signal_AsProgress(name, rows) == [sig |-> "progress", rows |-> <<>>, last |-> FALSE]

\* A signal of the worker on its way to the main thread.
Signal(name, rows) == [sig |-> name, rows |-> rows, last |-> FALSE]
ProgressSignal(current, total) ==
    [sig |-> "progress", rows |-> <<>>, last |-> total > 0 /\ current = total]

ScrapeFrame == UNCHANGED <<hdr_left, hdr_right, input_mode, files, written_from, trail,
                           install, export_jobs>>
WorkerFrame == UNCHANGED <<rows_widgets, rows_v, dialog, last_op>>

\* _on_online_search with an accepted URL of the site, and _start_scrape: a
\* registered worker makes the request a no-op; otherwise the button is
\* disabled, the progress dialog shown and a worker started.
StartScrape ==
    /\ scrape.btn_online
    /\ Len(rows_widgets) + Len(scrape.page) <= MaxRows
    /\ scrape' = IF scrape.worker THEN scrape
                 ELSE [scrape EXCEPT !.btn_online = FALSE, !.canceled = FALSE,
                                     !.progress = "shown", !.worker = TRUE,
                                     !.pc = "start", !.cancel = FALSE, !.i = 0,
                                     !.rows = <<>>, !.skip_section = FALSE,
                                     !.clean_val = <<>>,
                                     !.signals = <<>>, !.user_cancel = FALSE]
    /\ last_op' = RowOp("scrape_start", 0)
    /\ dialog' = "none"
    /\ UNCHANGED <<rows_widgets, rows_v>>
    /\ ScrapeFrame

\* The user presses "Abbrechen" on the visible progress dialog: the dialog
\* hides and _scrape_cancel marks the job and the worker as canceled.
ScrapeCancel ==
    /\ scrape.progress = "shown"
    /\ scrape' = IF scrape.worker
                 THEN [scrape EXCEPT !.canceled = TRUE, !.cancel = TRUE,
                                     !.progress = "hidden", !.user_cancel = TRUE]
                 ELSE [scrape EXCEPT !.progress = "hidden"]
    /\ UNCHANGED <<rows_widgets, rows_v, dialog, last_op>>
    /\ ScrapeFrame

\* ScrapeWorker.run up to the wait for the data sheet: a failure of the
\* driver or of the navigation emits error.
WorkerOpen ==
    /\ scrape.pc = "start"
    /\ \E outcome \in {"ok", "driver_error", "navigation_error"} :
        scrape' = IF outcome = "ok" THEN [scrape EXCEPT !.pc = "check"]
                  ELSE [scrape EXCEPT !.pc = "done",
                            !.signals = Append(@, Signal("error", <<>>))]
    /\ WorkerFrame
    /\ ScrapeFrame

\* ScrapeWorker.run, the cancel test after the wait and the parse of the page.
WorkerParse ==
    /\ scrape.pc = "check"
    /\ scrape' = IF scrape.cancel
                 THEN [scrape EXCEPT !.pc = "done",
                           !.signals = Append(@, Signal("finished", <<>>))]
                 ELSE IF ~scrape.sheet
                 THEN [scrape EXCEPT !.pc = "done",
                           !.signals = Append(@, Signal("error", <<>>))]
                 ELSE [scrape EXCEPT !.pc = "loop", !.i = 0, !.rows = <<>>,
                           !.skip_section = FALSE,
                           !.signals = Append(@, ProgressSignal(0, Len(scrape.page)))]
    /\ WorkerFrame
    /\ ScrapeFrame

\* ScrapeWorker.run, the head of the loop: after the last <tr> the rows are
\* emitted; before any other the cancel flag is tested.
WorkerLoopCheck ==
    /\ scrape.pc = "loop"
    /\ scrape' = IF scrape.i >= Len(scrape.page)
                 THEN [scrape EXCEPT !.pc = "done",
                           !.signals = Append(@, Signal("finished", scrape.rows))]
                 ELSE IF scrape.cancel
                 THEN [scrape EXCEPT !.pc = "done",
                           !.signals = Append(@, Signal("finished", <<>>))]
                 ELSE [scrape EXCEPT !.pc = "body"]
    /\ WorkerFrame
    /\ ScrapeFrame

\* ScrapeWorker.run, the body of the loop for the <tr> at index i.
WorkerLoopBody ==
    /\ scrape.pc = "body"
    /\ LET r == ScrapeRow(scrape.page[scrape.i + 1], scrape.rows, scrape.skip_section)
       IN scrape' = [scrape EXCEPT !.pc = "loop", !.i = @ + 1, !.rows = r.rows,
                         !.skip_section = r.skip,
                         !.clean_val = IF r.cleaned THEN r.clean_val ELSE @,
                         !.signals = IF r.progress
                                     THEN Append(@, ProgressSignal(scrape.i + 1,
                                                                   Len(scrape.page)))
                                     ELSE @]
    /\ WorkerFrame
    /\ ScrapeFrame

\* _scrape_progress_update: the dialog takes the value; with autoReset and
\* autoClose it hides when the value reaches the total.
ScrapeProgressUpdate ==
    /\ scrape.signals # <<>>
    /\ Head(scrape.signals).sig = "progress"
    /\ scrape' = [scrape EXCEPT !.signals = Tail(@),
                      !.progress = IF Head(scrape.signals).last /\ @ = "shown"
                                   THEN "hidden" ELSE @]
    /\ UNCHANGED <<rows_widgets, rows_v, dialog, last_op>>
    /\ ScrapeFrame

\* The row widgets _scrape_finished appends for the emitted rows.
RECURSIVE Populate(_, _)
Populate(widgets, items) ==
    IF items = <<>> THEN widgets
    ELSE LET it == Head(items)
             id == NewId(widgets)
             row == IF it.kind = "section"
                    THEN [id |-> id, kind |-> "section", text |-> TitleOrDefault(it.a),
                          val |-> <<>>]
                    ELSE [id |-> id, kind |-> "kv", text |-> it.a, val |-> it.b]
         IN Populate(Append(widgets, row), Tail(items))

\* _scrape_finished: the progress dialog is closed, the button enabled and
\* the worker slot cleared; a canceled job without rows ends there, an empty
\* result shows "Keine Daten", any other result is appended to the rows.
\* Closing the dialog sends it a close event, on which a progress dialog
\* emits canceled: _scrape_cancel then runs while the worker is still
\* registered.  Both deliveries of the event are modelled.
ScrapeFinished ==
    /\ scrape.signals # <<>>
    /\ Head(scrape.signals).sig = "finished"
    /\ \E close_emits \in BOOLEAN :
        LET rows == Head(scrape.signals).rows
            canceled == scrape.canceled \/ close_emits
            populated == Populate(rows_widgets, rows)
        IN /\ scrape' = [scrape EXCEPT !.signals = Tail(@), !.progress = "closed",
                             !.canceled = canceled, !.cancel = @ \/ close_emits,
                             !.btn_online = TRUE, !.worker = FALSE]
           /\ IF canceled /\ rows = <<>>
              THEN /\ dialog' = "none"
                   /\ UNCHANGED <<rows_widgets, rows_v>>
              ELSE IF rows = <<>>
              THEN /\ dialog' = "Keine Daten"
                   /\ UNCHANGED <<rows_widgets, rows_v>>
              ELSE /\ rows_widgets' = populated
                   /\ rows_v' = rows_v \o [i \in 1..Len(rows) |->
                                              populated[Len(rows_widgets) + i].id]
                   /\ dialog' = "none"
    /\ last_op' = RowOp("scrape_finished", 0)
    /\ ScrapeFrame

\* A variant of _scrape_error that leaves the worker registered.
ScrapeError_KeepsSlot ==
    /\ scrape.signals # <<>>
    /\ Head(scrape.signals).sig = "error"
    /\ \E close_emits \in BOOLEAN :
        scrape' = [scrape EXCEPT !.signals = Tail(@), !.progress = "closed",
                       !.canceled = @ \/ close_emits, !.cancel = @ \/ close_emits,
                       !.btn_online = TRUE]
    /\ dialog' = "Scraping fehlgeschlagen"
    /\ last_op' = RowOp("scrape_error", 0)
    /\ UNCHANGED <<rows_widgets, rows_v>>
    /\ ScrapeFrame

\* _scrape_error: dialog closed, button enabled, slot cleared, error shown.
ScrapeError ==
    /\ scrape.signals # <<>>
    /\ Head(scrape.signals).sig = "error"
    /\ \E close_emits \in BOOLEAN :
        scrape' = [scrape EXCEPT !.signals = Tail(@), !.progress = "closed",
                       !.canceled = @ \/ close_emits, !.cancel = @ \/ close_emits,
                       !.btn_online = TRUE, !.worker = FALSE]
    /\ dialog' = "Scraping fehlgeschlagen"
    /\ last_op' = RowOp("scrape_error", 0)
    /\ UNCHANGED <<rows_widgets, rows_v>>
    /\ ScrapeFrame

\* The <tr> elements scraped pages are made of: a section header, a header of
\* the excluded section, an entry, an entry with an excluded key, an entry
\* whose value cleans to nothing and the entry whose value becomes a list.
PageTrSamples ==
    { [cell |-> "header", text |-> <<"S">>, raw |-> <<>>],
      [cell |-> "header", raw |-> <<>>,
       text |-> <<"W", "e", "i", "t", "e", "r", "f", "ue", "h", "r", "e", "n", "d", "e", " ",
                  "L", "i", "n", "k", "s">>],
      [cell |-> "kv", text |-> <<"k">>, raw |-> <<"a", "&", "\n", "b">>],
      [cell |-> "kv", raw |-> <<"v">>,
       text |-> <<"I", "n", "t", "e", "r", "n", "e", "t", "-", "P", "r", "e", "i", "s">>],
      [cell |-> "kv", text |-> <<"k">>, raw |-> <<" ", "\n", "(">>],
      [cell |-> "kv", text |-> Besonderheiten, raw |-> <<"a", ";", " ", "b">>] }

\* The page behind the URL: its data sheet, or none.
Pages ==
    [sheet : {TRUE}, trs : SeqUpTo(PageTrSamples, MaxPageRows)]
        \cup {[sheet |-> FALSE, trs |-> <<>>]}

\* The main window after construction and the page a scrape will find.
InitScrape ==
    /\ rows_widgets = <<>>
    /\ rows_v = <<>>
    /\ hdr_left = DEFAULT_HEADER_LEFT
    /\ hdr_right = DEFAULT_HEADER_RIGHT
    /\ install = NoEngines
    /\ input_mode = "kv"
    /\ dialog = "none"
    /\ last_op = NoOp
    /\ files = [p \in Paths |-> NoFile]
    /\ written_from = [p \in Paths |-> <<>>]
    /\ trail = NoTrail
    /\ export_jobs = <<>>
    /\ \E pg \in Pages :
          scrape = [page |-> pg.trs, sheet |-> pg.sheet, worker |-> FALSE,
                    canceled |-> FALSE, progress |-> "none", btn_online |-> TRUE,
                    pc |-> "none", cancel |-> FALSE, i |-> 0, rows |-> <<>>,
                    skip_section |-> FALSE, clean_val |-> <<>>, signals |-> <<>>,
                    user_cancel |-> FALSE]

NextScrape ==
    \/ StartScrape
    \/ ScrapeCancel
    \/ WorkerOpen
    \/ WorkerParse
    \/ WorkerLoopCheck
    \/ WorkerLoopBody
    \/ ScrapeProgressUpdate
    \/ ScrapeFinished
    \/ ScrapeError

SpecScrape == InitScrape /\ [][NextScrape]_vars

\* C10: when the user has requested cancellation while the scrape job was
\* running, the handling of the job's result adds no row to the row list.
C10_CancelCommitsNothing ==
    (last_op.op = "scrape_finished" /\ scrape.user_cancel)
        => rows_widgets = last_op.before

\* The worker emits error in this step.
EmitsError ==
    /\ Len(scrape'.signals) > Len(scrape.signals)
    /\ scrape'.signals[Len(scrape'.signals)].sig = "error"

\* C11: once the user has requested cancellation of the running scrape job,
\* the worker emits no error signal for that job, a failing navigation or
\* wait included.
C11_CancelNotError ==
    [][scrape.user_cancel => ~EmitsError]_vars

\* ------------------------------------------------------------------------
\* Cleaning of scraped values
\* ------------------------------------------------------------------------

\* The lines the value cells of the scraped pages are made of, and the
\* value of the data sheet's resolution row.
LineFrags == { <<"a">>, <<"(">>, <<")">>, <<"1", " ", "x">>, <<"5">> }
ResolutionLines ==
    << <<"8", ".", "6", "4", "0", " ", "x">>, <<"5", ".", "7", "6", "0">>, <<"(">>,
       <<"P", "i", "x", "e", "l">>, <<")">> >>
RawValues ==
    {JoinLines(ls) : ls \in SeqUpTo(LineFrags, MaxRawLines)} \cup {JoinLines(ResolutionLines)}

\* The main window after construction and a data sheet of one entry.
InitClean ==
    /\ rows_widgets = <<>>
    /\ rows_v = <<>>
    /\ hdr_left = DEFAULT_HEADER_LEFT
    /\ hdr_right = DEFAULT_HEADER_RIGHT
    /\ install = NoEngines
    /\ input_mode = "kv"
    /\ dialog = "none"
    /\ last_op = NoOp
    /\ files = [p \in Paths |-> NoFile]
    /\ written_from = [p \in Paths |-> <<>>]
    /\ trail = NoTrail
    /\ export_jobs = <<>>
    /\ \E raw \in RawValues :
          scrape = [page |-> <<[cell |-> "kv", text |-> <<"k">>, raw |-> raw]>>,
                    sheet |-> TRUE, worker |-> FALSE,
                    canceled |-> FALSE, progress |-> "none", btn_online |-> TRUE,
                    pc |-> "none", cancel |-> FALSE, i |-> 0, rows |-> <<>>,
                    skip_section |-> FALSE, clean_val |-> <<>>, signals |-> <<>>,
                    user_cancel |-> FALSE]

SpecClean == InitClean /\ [][NextScrape]_vars

\* The worker has cleaned the value of the sheet's entry.
ValueCleaned == scrape.worker /\ scrape.i = 1 /\ scrape.pc \in {"loop", "done"}

\* The raw lines end with a fragment split over the lines "(", X, ")" that
\* follows lines cleaning to one line.
PlainWords == { <<"a">>, <<"P", "i", "x", "e", "l">> }
EndsWithSplitParen(lines) ==
    LET n == Len(lines)
    IN /\ n >= 4
       /\ lines[n - 2] = <<"(">>
       /\ lines[n - 1] \in PlainWords
       /\ lines[n] = <<")">>
       /\ LET before == _clean_scraped_value(JoinLines(SubSeq(lines, 1, n - 3)))
          IN before # <<>> /\ ~Contains(before, <<"\n">>)

\* C12: a value whose raw lines end with "(", X, ")" is cleaned to the
\* preceding line followed by " (X)"; the lines "8.640 x", "5.760", "(",
\* "Pixel", ")" are cleaned to the single line "8.640 x 5.760 (Pixel)".
C12_ParenRejoined ==
    LET lines == SplitLines(scrape.page[1].raw)
        n == Len(lines)
    IN (ValueCleaned /\ EndsWithSplitParen(lines))
          => scrape.clean_val
                = _clean_scraped_value(JoinLines(SubSeq(lines, 1, n - 3)))
                     \o <<" ", "(">> \o lines[n - 1] \o <<")">>

\* ------------------------------------------------------------------------
\* Translation of labels
\* ------------------------------------------------------------------------

\* Labels: an acronym, a German word, both, a dictionary key and a word the
\* built-in post-edits rewrite.
LabelSamples ==
    { <<"U", "S", "B">>, <<"ae">>, <<"ae", " ", "U", "S", "B">>, <<"k">> }

\* translations_fr.json and translations_fr_post.json, absent or present.
LabelDictSamples == { <<>>, (<<"k">> :> <<"U", "S", "B">>) }
PostEditSamples ==
    { <<>>, << <<(<<"u", "s", "b">>), (<<"x">>)>> >>, << <<(<<"ae">>), (<<"a">>)>> >> }

TranslateInstallations ==
    { i \in [translations_fr : LabelDictSamples, post_edits : PostEditSamples,
             argos : BOOLEAN, verdict : BOOLEAN,
             behaviour : {"empty", "raises", "same", "french", "drop", "rewrite"}] :
        ~i.argos => i.behaviour = "empty" }

\* A document of one section whose title is the label.
InitTranslate ==
    /\ \E label \in LabelSamples :
          rows_widgets = WithIds(<<[kind |-> "section", text |-> label, val |-> <<>>]>>)
    /\ hdr_left = DEFAULT_HEADER_LEFT
    /\ hdr_right = <<>>
    /\ install \in TranslateInstallations
    /\ InitRest

SpecTranslate == InitTranslate /\ [][NextExport]_vars

\* The job has written the target-language file of a document of one section.
LabelJob == export_jobs[1]
LabelTranslated ==
    /\ export_jobs # <<>>
    /\ LabelJob.pc = "emitted"
    /\ LabelJob.result.ok
    /\ Len(LabelJob.snapshot) = 1
TheLabel == LabelJob.snapshot[1].a
TargetTitle == files["path_fr"].tbody[1].th_text
InMissing(label) ==
    \E i \in 1..Len(LabelJob.result.missing) : LabelJob.result.missing[i] = label

\* C13: every protected token of a label occurs unchanged in the label the
\* target-language file holds, for every post-edit table and every engine.
C13_TokensKept ==
    LabelTranslated =>
        LET tokens == _mask_protected_tokens(TheLabel).tokens
        IN \A i \in 1..Len(tokens) : Contains(TargetTitle, tokens[i])

\* C14: a label that is not in the merged dictionary and is detected as
\* German is, without an engine, written as the original text with the
\* post-edits applied and reported as a missing translation.
C14_Degradation ==
    (/\ LabelTranslated
     /\ TheLabel \notin DOMAIN TranslationEnv.mapping
     /\ _should_translate_text(TheLabel, FALSE, TranslationEnv.verdict)
     /\ ~TranslationEnv.argos)
        => /\ TargetTitle = _escape_html(_apply_post_edits(TheLabel,
                                                           TranslationEnv.post_edits))
           /\ InMissing(TheLabel)

\* C15: a label that is a key of the merged dictionary is written as the
\* dictionary's value with the post-edits applied, whatever the classifier
\* and the engine do, and is not reported as a missing translation.
C15_DictionaryHit ==
    LabelTranslated =>
        /\ TheLabel \in DOMAIN TranslationEnv.mapping
              => /\ TargetTitle = _escape_html(_apply_post_edits(
                                      TranslationEnv.mapping[TheLabel],
                                      TranslationEnv.post_edits))
                 /\ ~InMissing(TheLabel)
        /\ files["path_fr"].thead[1]
              = _escape_html(_apply_post_edits(
                    TranslationEnv.mapping[DEFAULT_HEADER_LEFT], TranslationEnv.post_edits))
        /\ ~InMissing(DEFAULT_HEADER_LEFT)

\* A label of the external dictionary, classified as German, with an engine
\* that would render it, and a post-edit that rewrites the dictionary's value.
C15_Witness ==
    /\ LabelTranslated
    /\ TheLabel = <<"k">>
    /\ TheLabel \in DOMAIN install.translations_fr
    /\ install.argos /\ install.verdict /\ install.behaviour = "french"
    /\ TargetTitle = <<"x">>

\* The worker threads and the event loop of the main thread are scheduled:
\* a started job gets to run, an emitted result gets delivered.  A job can run
\* exactly while it is in ExportWorker.run (Runnable), so the weak fairness
\* of its run is written with that predicate in the place of ENABLED.
Runnable(j) == j \in 1..Len(export_jobs) /\ export_jobs[j].pc = "running"
ExportFairness ==
    /\ \A j \in 1..MaxExportJobs :
          <>[]Runnable(j) => []<><<ExportWorkerRun(j)>>_export_jobs
    /\ \A j \in 1..MaxExportJobs : WF_export_jobs(OnExportFinished(j))

\* The installations that differ in engine and classifier only: no engine,
\* an engine that returns nothing, raises or translates; a classifier that
\* is missing or finds nothing German, or finds German.
EngineInstallations ==
    { i \in TranslateInstallations :
        /\ i.translations_fr = <<>>
        /\ i.post_edits = <<>>
        /\ i.behaviour \in {"empty", "raises", "french"} }

InitEngines ==
    /\ \E label \in LabelSamples :
          rows_widgets = WithIds(<<[kind |-> "section", text |-> label, val |-> <<>>]>>)
    /\ hdr_left = DEFAULT_HEADER_LEFT
    /\ hdr_right = <<>>
    /\ install \in EngineInstallations
    /\ InitRest

SpecEngines == InitEngines /\ [][NextExport]_vars /\ ExportFairness

\* The jobs that have left ExportWorker.run.
JobsRun == {j \in 1..Len(export_jobs) : export_jobs[j].pc # "running"}

\* C16: every export job emits its result, and emits it once, whatever
\* engines are installed and however the writes go; with both files written
\* the result is ok, with or without engine and classifier.
C16_JobReachesDone ==
    /\ [](\A j \in JobsRun :
             /\ export_jobs[j].emits = 1
             /\ export_jobs[j].result.ok = (export_jobs[j].write = "ok"))
    /\ (export_jobs # <<>> /\ export_jobs[1].pc = "running")
          ~> (export_jobs # <<>> /\ export_jobs[1].pc = "emitted")

\* A job has emitted an ok result without engine and classifier, with a
\* German label to translate.
C16_Witness ==
    /\ LabelTranslated
    /\ ~install.argos /\ ~install.verdict
    /\ TheLabel = <<"ae">>
    /\ LabelJob.emits = 1

\* ------------------------------------------------------------------------
\* Damaged files
\* ------------------------------------------------------------------------

\* The <tr> elements of damaged files: a section and an entry as the exporter
\* writes them, a section <tr> without cell, a category <tr> whose <th> has
\* no class, an entry without <td> and an entry without <th>.
ImportTrSamples ==
    { SectionTr(<<"S">>),
      KvTr(<<"k">>, <<"v">>),
      [SectionTr(<<>>) EXCEPT !.th = FALSE],
      [CatTr(<<"T">>) EXCEPT !.th_cls = ""],
      [KvTr(<<"k">>, <<>>) EXCEPT !.td = FALSE],
      [KvTr(<<>>, <<"v">>) EXCEPT !.th = FALSE] }

\* The row descriptors of a snapshot comment: a mapping, or a JSON value of
\* another type.
GoodDescriptor ==
    [mapping |-> TRUE, type |-> "kv", title |-> <<>>, key |-> <<"a">>, value_html |-> <<"b">>]
BadDescriptor == [GoodDescriptor EXCEPT !.mapping = FALSE]
ImportSnapshots ==
    {NoSnapshot}
    \cup [present : {TRUE}, json_ok : BOOLEAN, ver : {2}, left : {<<"L">>}, right : {<<"R">>},
          rows : {<<GoodDescriptor>>, <<GoodDescriptor, BadDescriptor>>}]

\* A file is on disk: with or without table, with or without snapshot
\* comment.  The editor holds a document of one entry.
InitImport ==
    /\ \E head \in {<<>>, <<(<<"L">>), (<<"R">>)>>},
          body \in SeqUpTo(ImportTrSamples, MaxDocRows),
          snap \in ImportSnapshots :
          files = [p \in Paths |->
                      IF p = "path"
                      THEN [exists |-> TRUE, style |-> FALSE, thead |-> head,
                            tbody |-> body, snapshot |-> snap]
                      ELSE NoFile]
    /\ rows_widgets = WithIds(<<[kind |-> "kv", text |-> <<"k">>, val |-> <<"v">>]>>)
    /\ rows_v = LayoutOf(rows_widgets)
    /\ hdr_left = <<"H">>
    /\ hdr_right = <<"D">>
    /\ install = NoEngines
    /\ input_mode = "kv"
    /\ dialog = "none"
    /\ last_op = NoOp
    /\ written_from = [p \in Paths |-> <<>>]
    /\ trail = NoTrail
    /\ export_jobs = <<>>
    /\ scrape = NoScrape

SpecImport == InitImport /\ [][NextLegacy]_vars

\* A <tr> with the cells of its kind.
WellFormedTr(tr) ==
    \/ tr.cls = "section" /\ tr.th /\ tr.th_cls = "section" /\ tr.th_colspan
    \/ tr.cls = "cat" /\ tr.th /\ tr.th_cls = "category" /\ tr.th_colspan
    \/ tr.cls = "" /\ tr.th /\ tr.th_cls = "" /\ ~tr.th_colspan /\ tr.td

\* The rows of a file without its malformed rows: of the snapshot comment
\* when its JSON loads, of the table otherwise.
WellFormedRows(f) ==
    IF f.snapshot.present /\ f.snapshot.json_ok
    THEN SnapshotRows([f.snapshot EXCEPT !.rows = SelectSeq(@, LAMBDA r : r.mapping)])
    ELSE FlattenSeq([i \in 1..Len(f.tbody) |->
                        IF WellFormedTr(f.tbody[i]) THEN ParseTr(f.tbody[i]) ELSE <<>>])

\* C17: after a load the editor holds one row per well-formed row of the
\* file, in order and from one import path; a malformed row adds none.
C17_BadRowsDropped ==
    last_op.op = "load" =>
        LET rows == WellFormedRows(files["path"])
        IN rows_widgets = [i \in 1..Len(rows) |-> LoadedRow(rows[i], i)]

\* The content holds neither a snapshot comment that parses nor a table.
NothingToLoad(f) == ~SnapshotUsable(f) /\ f.thead = <<>> /\ f.tbody = <<>>

\* C18: a load of a file that cannot be read, or that holds neither a
\* parseable snapshot nor a table, shows the load error and leaves the two
\* headers and the rows as they were.
C18_FailedLoadKeeps ==
    [][(last_op'.op = "load_failed" \/ NothingToLoad(files["path"]))
          => /\ dialog' = "Ladefehler"
             /\ rows_widgets' = rows_widgets
             /\ hdr_left' = hdr_left
             /\ hdr_right' = hdr_right]_vars

\* ------------------------------------------------------------------ row kinds
\* The kinds of the rows of a document that the exporter writes a <tr> for,
\* in order: every section and category, and every entry it does not skip.
RECURSIVE WrittenKinds(_)
WrittenKinds(items) ==
    IF items = <<>> THEN <<>>
    ELSE (IF BuildRow(Head(items), Identity) = <<>> THEN <<>>
          ELSE <<Head(items).kind>>) \o WrittenKinds(Tail(items))

\* The kinds of the rows the editor holds, in order.
KindsOf(rows) == [i \in 1..Len(rows) |-> rows[i].kind]

\* C19: after the import of an exported file every row of the editor has the
\* kind of the exported row it came from: the kinds of the imported rows are,
\* in order, the kinds of the rows the exporter wrote, also for an Entry
\* whose key is the text of one of the importer's markers.
C19_KindsKept ==
    (last_op.op = "load" /\ last_op.id = "path")
        => KindsOf(rows_widgets) = WrittenKinds(written_from["path"].rows)

\* ------------------------------------------------------------------ isolation
\* The texts typed over the field of a row or of a header.
EditedTexts == { <<"e">> }

\* The user types into a field of a row widget: the title of a section or
\* category, the key or the value of an entry.
EditRow(id) ==
    /\ IsLive(rows_widgets, id)
    /\ \E field \in {"text", "val"}, t \in EditedTexts :
        LET idx == IndexOf(rows_widgets, id)
        IN /\ field = "val" => rows_widgets[idx].kind = "kv"
           /\ rows_widgets' = [rows_widgets EXCEPT ![idx] =
                  IF field = "text" THEN [@ EXCEPT !.text = t] ELSE [@ EXCEPT !.val = t]]
    /\ last_op' = RowOp("edit", id)
    /\ dialog' = "none"
    /\ UNCHANGED <<rows_v, input_mode>>
    /\ EditFrame

\* The user types into one of the two header fields.
EditHeader ==
    /\ \E left \in BOOLEAN, t \in EditedTexts :
        /\ hdr_left' = IF left THEN t ELSE hdr_left
        /\ hdr_right' = IF left THEN hdr_right ELSE t
    /\ last_op' = RowOp("edit_header", 0)
    /\ dialog' = "none"
    /\ UNCHANGED <<rows_widgets, rows_v, input_mode, files, written_from, trail,
                   install, export_jobs, scrape>>

\* The document the isolation runs start from, the file an import reads and
\* the page a scrape reads.
IsolationRows == <<[kind |-> "kv", text |-> <<"k">>, val |-> <<"v">>],
                   [kind |-> "section", text |-> <<"S">>, val |-> <<>>]>>
IsolationStored ==
    SingleExport(WithIds(<<[kind |-> "kv", text |-> <<"s">>, val |-> <<"v">>]>>),
                 <<"H">>, <<>>)
IsolationPage == <<[cell |-> "kv", text |-> <<"p">>, raw |-> <<"v">>]>>

InitIsolation ==
    /\ rows_widgets = WithIds(IsolationRows)
    /\ rows_v = LayoutOf(rows_widgets)
    /\ hdr_left = DEFAULT_HEADER_LEFT
    /\ hdr_right = DEFAULT_HEADER_RIGHT
    /\ install = NoEngines
    /\ input_mode = "kv"
    /\ dialog = "none"
    /\ last_op = NoOp
    /\ files = [p \in Paths |-> IF p = "path" THEN IsolationStored ELSE NoFile]
    /\ written_from = [p \in Paths |-> <<>>]
    /\ trail = NoTrail
    /\ export_jobs = <<>>
    /\ scrape = [page |-> IsolationPage, sheet |-> TRUE, worker |-> FALSE,
                 canceled |-> FALSE, progress |-> "none", btn_online |-> TRUE,
                 pc |-> "none", cancel |-> FALSE, i |-> 0, rows |-> <<>>,
                 skip_section |-> FALSE, clean_val |-> <<>>, signals |-> <<>>,
                 user_cancel |-> FALSE]

\* Some worker has not run yet, and the main window still holds the rows
\* and headers every such worker was started with.
InFlightUnchanged ==
    /\ \E j \in 1..Len(export_jobs) : export_jobs[j].pc = "running"
    /\ \A j \in 1..Len(export_jobs) :
          export_jobs[j].pc = "running"
              => /\ export_jobs[j].snapshot = TakeSnapshot(rows_widgets)
                 /\ export_jobs[j].left_h = HeaderOrDefault(hdr_left, DEFAULT_HEADER_LEFT)
                 /\ export_jobs[j].right_h = HeaderOrDefault(hdr_right, DEFAULT_HEADER_RIGHT)

\* What happens on the GUI thread while a worker is in flight.
GuiStep ==
    \/ ConfirmCurrentInput
    \/ AddCategoryRow
    \/ \E id \in 1..MaxRows : RowDelete(id)
    \/ \E id \in 1..MaxRows : RowMoveUp(id)
    \/ \E id \in 1..MaxRows : RowMoveDown(id)
    \/ \E id \in 1..MaxRows : EditRow(id)
    \/ EditHeader
    \/ OnClearAll
    \/ LoadFromFile("path")
    \/ NextScrape

\* The two-language export of the initial document, and the steps of the
\* GUI thread and of the scraper while its worker is in flight, up to the
\* first one that changes a row or a header.
NextIsolation ==
    \/ last_op.op = "none" /\ ExportStart
    \/ \E j \in 1..MaxExportJobs : ExportWorkerRun(j)
    \/ \E j \in 1..MaxExportJobs : OnExportFinished(j)
    \/ InFlightUnchanged /\ GuiStep

SpecIsolation == InitIsolation /\ [][NextIsolation]_vars

\* The two texts a worker writes for the rows and headers it was started with.
SourceText(job) ==
    NormalizeFile(_build_table_from_snapshot(job.snapshot, job.left_h, job.right_h,
                                             Identity))
TargetText(job) == TargetExport(job, TranslationEnv)

\* What a worker was started with.
StartedWith(job) == <<job.snapshot, job.left_h, job.right_h>>

\* C20: the files an export job writes are built from the headers and rows
\* of the moment the export was invoked.  A job is started with the rows and
\* headers the main window holds at that moment; no step changes what a job
\* was started with; the step in which the worker writes leaves in each file
\* it writes the text built from that; and no step of the GUI thread or of
\* the scraper changes an output file.
C20_SnapshotIsolation ==
    [][/\ Len(export_jobs') > Len(export_jobs)
            => StartedWith(export_jobs'[Len(export_jobs')])
                 = <<TakeSnapshot(rows_widgets),
                     HeaderOrDefault(hdr_left, DEFAULT_HEADER_LEFT),
                     HeaderOrDefault(hdr_right, DEFAULT_HEADER_RIGHT)>>
       /\ Len(export_jobs') >= Len(export_jobs)
            => \A j \in 1..Len(export_jobs) :
                 /\ StartedWith(export_jobs'[j]) = StartedWith(export_jobs[j])
                 /\ (export_jobs[j].pc = "running" /\ export_jobs'[j].write = "ok")
                       => /\ files'["path_de"] = SourceText(export_jobs[j])
                          /\ files'["path_fr"] = TargetText(export_jobs[j])
                 /\ (export_jobs[j].pc = "running" /\ export_jobs'[j].write = "fail_fr")
                       => files'["path_de"] = SourceText(export_jobs[j])
       /\ (files'["path_de"] # files["path_de"] \/ files'["path_fr"] # files["path_fr"])
            => \E j \in 1..Len(export_jobs) :
                 /\ export_jobs[j].pc = "running"
                 /\ Len(export_jobs') = Len(export_jobs)
                 /\ export_jobs'[j].pc # "running"]_vars

\* A worker has written both files after the rows or headers of the main
\* window had been changed, and the files hold the texts of what it was
\* started with.
C20_Witness ==
    \E j \in 1..Len(export_jobs) :
        /\ export_jobs[j].pc = "emitted"
        /\ export_jobs[j].write = "ok"
        /\ export_jobs[j].edited
        /\ files["path_de"] = SourceText(export_jobs[j])
        /\ files["path_fr"] = TargetText(export_jobs[j])

\* ------------------------------------------------------------------ scrape mapping
\* The <tr> elements data sheets are drawn from for the mapping: a titled
\* header, a header whose title is blank, the denylisted header, a plain
\* pair, a pair with a denylisted key, a pair with a blank key and a pair
\* whose value cleans to nothing.
SheetTrSamples ==
    { [cell |-> "header", text |-> <<"S">>, raw |-> <<>>],
      [cell |-> "header", text |-> <<" ">>, raw |-> <<>>],
      [cell |-> "header", raw |-> <<>>,
       text |-> <<"W", "e", "i", "t", "e", "r", "f", "ue", "h", "r", "e", "n", "d", "e", " ",
                  "L", "i", "n", "k", "s">>],
      [cell |-> "kv", text |-> <<"k">>, raw |-> <<"v">>],
      [cell |-> "kv", raw |-> <<"v">>,
       text |-> <<"I", "n", "t", "e", "r", "n", "e", "t", "-", "P", "r", "e", "i", "s">>],
      [cell |-> "kv", text |-> <<" ">>, raw |-> <<"v">>],
      [cell |-> "kv", text |-> <<"k">>, raw |-> <<"(">>] }

InitMapping ==
    /\ rows_widgets = <<>>
    /\ rows_v = <<>>
    /\ hdr_left = DEFAULT_HEADER_LEFT
    /\ hdr_right = DEFAULT_HEADER_RIGHT
    /\ install = NoEngines
    /\ input_mode = "kv"
    /\ dialog = "none"
    /\ last_op = NoOp
    /\ files = [p \in Paths |-> NoFile]
    /\ written_from = [p \in Paths |-> <<>>]
    /\ trail = NoTrail
    /\ export_jobs = <<>>
    /\ \E trs \in SeqUpTo(SheetTrSamples, MaxSheetRows) :
          scrape = [page |-> trs, sheet |-> TRUE, worker |-> FALSE,
                    canceled |-> FALSE, progress |-> "none", btn_online |-> TRUE,
                    pc |-> "none", cancel |-> FALSE, i |-> 0, rows |-> <<>>,
                    skip_section |-> FALSE, clean_val |-> <<>>, signals |-> <<>>,
                    user_cancel |-> FALSE]

SpecMapping == InitMapping /\ [][NextScrape]_vars

\* The title of a header <tr> and the key of a pair, as the worker reads them.
CellText(tr) == _normalize_for_paste(Strip(tr.text))

IsHeader(tr) == tr.cell = "header"
Denylisted(tr) == Lower(CellText(tr)) \in SCRAPE_EXCLUDE_SECTIONS

\* The <tr> at index i lies between a denylisted header and the next titled
\* header that is not denylisted.
InDenylistedSection(trs, i) ==
    \E h \in 1..(i - 1) :
        /\ IsHeader(trs[h]) /\ Denylisted(trs[h])
        /\ \A m \in (h + 1)..(i - 1) :
              ~(IsHeader(trs[m]) /\ CellText(trs[m]) # <<>> /\ ~Denylisted(trs[m]))

\* A pair is removed inside a denylisted section, with a denylisted key,
\* with an empty key and with an empty cleaned value.
PairKept(trs, i) ==
    /\ ~InDenylistedSection(trs, i)
    /\ CellText(trs[i]) # <<>>
    /\ Lower(CellText(trs[i])) \notin SCRAPE_EXCLUDE_KEYS
    /\ _clean_scraped_value(trs[i].raw) # <<>>

\* The row a <tr> becomes: a Section for a header, an Entry for a pair.
RowOfTr(tr) ==
    IF IsHeader(tr) THEN [kind |-> "section", a |-> CellText(tr), b |-> <<>>]
    ELSE [kind |-> "kv", a |-> CellText(tr),
          b |-> ScrapedValueHtml(CellText(tr), _clean_scraped_value(tr.raw))]

\* The rows of the <tr> elements after index i that a test keeps, in order.
RECURSIVE FilterFrom(_, _, _)
FilterFrom(trs, i, kept) ==
    IF i > Len(trs) THEN <<>>
    ELSE (IF i \in kept THEN <<RowOfTr(trs[i])>> ELSE <<>>) \o FilterFrom(trs, i + 1, kept)

\* The filter as the worker applies it: a header is removed when its title
\* is denylisted and when its title is empty.
KeptRows(trs) ==
    FilterFrom(trs, 1,
        {i \in 1..Len(trs) :
            IF IsHeader(trs[i]) THEN CellText(trs[i]) # <<>> /\ ~Denylisted(trs[i])
            ELSE PairKept(trs, i)})

\* The filter as claimed: of the headers only the denylisted are removed.
ClaimedRows(trs) ==
    FilterFrom(trs, 1,
        {i \in 1..Len(trs) :
            IF IsHeader(trs[i]) THEN ~Denylisted(trs[i]) ELSE PairKept(trs, i)})

\* The <tr> elements the loop has passed.
Passed == SubSeq(scrape.page, 1, scrape.i)

\* The worker has left the loop after its last pass and emitted the rows.
LoopCompleted ==
    /\ scrape.worker
    /\ scrape.pc = "done"
    /\ scrape.i = Len(scrape.page)
    /\ \E s \in 1..Len(scrape.signals) :
          scrape.signals[s].sig = "finished" /\ scrape.signals[s].rows = scrape.rows

\* C21 as claimed: the rows the loop has collected are the <tr> elements
\* passed so far, in source order, without the denylisted headers, the pairs
\* of a denylisted section, the pairs with a denylisted key and the pairs
\* with an empty key or cleaned value, and nothing else is removed.
C21_FilterAsClaimed ==
    (scrape.worker /\ scrape.pc \in {"loop", "body", "done"} /\ scrape.i > 0)
        => scrape.rows = ClaimedRows(Passed)

\* C21: the rows the loop has collected are the <tr> elements passed so far,
\* in source order, without the headers whose title is denylisted or empty,
\* the pairs of a denylisted section, the pairs with a denylisted key and
\* the pairs with an empty key or cleaned value; a header becomes a Section
\* row and a pair an Entry row, and a signal of the worker that carries rows
\* carries exactly these.
C21_OrderPreservingFilter ==
    /\ (scrape.worker /\ scrape.pc \in {"loop", "body", "done"} /\ scrape.i > 0)
          => scrape.rows = KeptRows(Passed)
    /\ \A s \in 1..Len(scrape.signals) :
          scrape.signals[s].rows \in {<<>>, KeptRows(scrape.page)}

\* The loop has run over a sheet whose denylisted header hid a pair and
\* whose later header was kept.
C21_Witness ==
    /\ LoopCompleted
    /\ Len(scrape.page) = 3
    /\ IsHeader(scrape.page[1]) /\ Denylisted(scrape.page[1])
    /\ ~IsHeader(scrape.page[2]) /\ PairKept(<<scrape.page[2]>>, 1)
    /\ scrape.rows = <<RowOfTr(scrape.page[3])>>
    /\ IsHeader(scrape.page[3])

\* ------------------------------------------------------------------ validation
\* A text of blanks only, the empty text included.
IsBlank(t) == \A i \in 1..Len(t) : t[i] = " "

RejectionDialogs == {"Fehlender Abschnitt", "Fehlender Schluessel"}

\* C22: a confirm of the input row that is rejected for its empty or blank
\* key or title tells the user so and leaves the row list, the layout, the
\* headers and the input mode as they were, the title message in section
\* mode and the key message otherwise; and no entry or section of the row
\* list has a blank key or title, so the rejected input has appended nothing.
C22_ValidationKeeps ==
    /\ [][(last_op'.op = "rejected" \/ dialog' \in RejectionDialogs)
            => /\ last_op'.op = "rejected"
               /\ dialog' = (IF input_mode = "section" THEN "Fehlender Abschnitt"
                             ELSE "Fehlender Schluessel")
               /\ rows_widgets' = rows_widgets /\ rows_v' = rows_v
               /\ hdr_left' = hdr_left /\ hdr_right' = hdr_right
               /\ input_mode' = input_mode]_vars
    /\ [](\A i \in 1..Len(rows_widgets) :
             rows_widgets[i].kind \in {"kv", "section"} => ~IsBlank(rows_widgets[i].text))

\* A confirm in section mode was rejected while the list held rows.
C22_Witness ==
    /\ last_op.op = "rejected"
    /\ dialog = "Fehlender Abschnitt"
    /\ input_mode = "section"
    /\ rows_widgets # <<>>
    /\ last_op.before = rows_widgets

\* ------------------------------------------------------------------ value sanitization
\* A value fragment is a sequence of atoms: the pieces of a tag ("<span",
\* the opening of its style attribute, the closing quote, ">"), whole style
\* declarations, the separators ";" and " ", and text.
StyleOpen == " style=\""
StyleClose == "\""

FontDecls == {"font-family:'Segoe UI'", "font-size:9pt"}
QtDecls == {"-qt-block-indent:0"}
OtherDecls == {"color:#ff0000", "font-weight:600"}

\* The index of the first atom at or after i that is not a blank.
RECURSIVE SkipBlanks(_, _)
SkipBlanks(t, i) == IF i <= Len(t) /\ t[i] = " " THEN SkipBlanks(t, i + 1) ELSE i

\* The index of the first atom at or after i that is a semicolon, or Len(t) + 1.
RECURSIVE SkipToSemi(_, _)
SkipToSemi(t, i) == IF i <= Len(t) /\ t[i] # ";" THEN SkipToSemi(t, i + 1) ELSE i

\* The match of  \s*(name)\s*:\s*[^;]+;?  from index j, as the index after
\* it, or 0 when there is none.
DeclFrom(t, j, names) ==
    IF SkipBlanks(t, j) <= Len(t) /\ t[SkipBlanks(t, j)] \in names
    THEN IF SkipToSemi(t, SkipBlanks(t, j) + 1) <= Len(t)
         THEN SkipToSemi(t, SkipBlanks(t, j) + 1) + 1
         ELSE Len(t) + 1
    ELSE 0

\* The match of  (?:^|;)\s*(name)...;?  at index i: the start of the text
\* is tried first, then a semicolon at i.
DeclMatch(t, i, names) ==
    IF i = 1 /\ DeclFrom(t, 1, names) # 0 THEN DeclFrom(t, 1, names)
    ELSE IF i <= Len(t) /\ t[i] = ";" THEN DeclFrom(t, i + 1, names)
    ELSE 0

\* re.sub(pattern, ';', style): the matches are found from left to right,
\* each search starting where the match before it ended.
RECURSIVE SubDecls(_, _, _)
SubDecls(t, i, names) ==
    IF i > Len(t) THEN <<>>
    ELSE IF DeclMatch(t, i, names) # 0
         THEN <<";">> \o SubDecls(t, DeclMatch(t, i, names), names)
    ELSE <<t[i]>> \o SubDecls(t, i + 1, names)

\* re.sub(r';{2,}', ';', style)
RECURSIVE CollapseSemis(_)
CollapseSemis(t) ==
    IF t = <<>> THEN <<>>
    ELSE IF Len(t) >= 2 /\ t[1] = ";" /\ t[2] = ";" THEN CollapseSemis(Tail(t))
    ELSE <<Head(t)>> \o CollapseSemis(Tail(t))

\* str.strip(' ;')
RECURSIVE StripSemis(_)
StripSemis(t) ==
    IF t # <<>> /\ Head(t) \in {" ", ";"} THEN StripSemis(Tail(t))
    ELSE IF t # <<>> /\ t[Len(t)] \in {" ", ";"} THEN StripSemis(SubSeq(t, 1, Len(t) - 1))
    ELSE t

\* _clean_style: the declarations of one style attribute after the three
\* substitutions and the strip.
_clean_style(style) ==
    StripSemis(CollapseSemis(SubDecls(SubDecls(style, 1, FontDecls), 1, QtDecls)))

\* The index of the closing quote of the style attribute opened before i.
RECURSIVE QuoteFrom(_, _)
QuoteFrom(t, i) == IF i <= Len(t) /\ t[i] # StyleClose THEN QuoteFrom(t, i + 1) ELSE i

\* re.sub(r'\sstyle="([^"]*)"', _clean_style, html): every style attribute
\* is replaced by its cleaned form, or by nothing when no declaration is left.
RECURSIVE CleanStyles(_, _)
CleanStyles(t, i) ==
    IF i > Len(t) THEN <<>>
    ELSE IF t[i] = StyleOpen /\ QuoteFrom(t, i + 1) <= Len(t)
         THEN (IF _clean_style(SubSeq(t, i + 1, QuoteFrom(t, i + 1) - 1)) = <<>> THEN <<>>
               ELSE <<StyleOpen>> \o _clean_style(SubSeq(t, i + 1, QuoteFrom(t, i + 1) - 1))
                    \o <<StyleClose>>)
              \o CleanStyles(t, QuoteFrom(t, i + 1) + 1)
    ELSE <<t[i]>> \o CleanStyles(t, i + 1)

\* The index of the first "</span>" at or after i, or Len(t) + 1.
RECURSIVE SpanEnd(_, _)
SpanEnd(t, i) == IF i <= Len(t) /\ t[i] # "</span>" THEN SpanEnd(t, i + 1) ELSE i

\* re.sub(r'<span(?:\sstyle="")?\s*>(.*?)</span>', r'\1', html): a span
\* without attributes gives way to its content.
RECURSIVE UnwrapSpans(_, _)
UnwrapSpans(t, i) ==
    IF i > Len(t) THEN <<>>
    ELSE IF t[i] = "<span" /\ i < Len(t) /\ t[i + 1] = ">" /\ SpanEnd(t, i + 2) <= Len(t)
         THEN SubSeq(t, i + 2, SpanEnd(t, i + 2) - 1) \o UnwrapSpans(t, SpanEnd(t, i + 2) + 1)
    ELSE <<t[i]>> \o UnwrapSpans(t, i + 1)

\* _sanitize_value_html
_sanitize_value_html(html) == UnwrapSpans(CleanStyles(html, 1), 1)

\* EntryRow.val_html, called for the entry with the given identity: the
\* inner markup of the value editor goes through _sanitize_value_html.  The
\* ghost record keeps what the call returned.
ValHtml(id) ==
    /\ IsLive(rows_widgets, id)
    /\ rows_widgets[IndexOf(rows_widgets, id)].kind = "kv"
    /\ last_op' = [op |-> "val_html", id |-> id, before |-> rows_widgets,
                   html |-> _sanitize_value_html(rows_widgets[IndexOf(rows_widgets, id)].val)]
    /\ UNCHANGED <<rows_widgets, rows_v, input_mode, dialog>>
    /\ EditFrame

\* The separators between the declarations of a style attribute, what
\* precedes the first and what follows the last.
StyleSeparators == { <<";">>, <<";", " ">> }
StyleLeads == { <<>>, <<" ">> }
StyleTails == { <<>>, <<";">> }

RECURSIVE JoinDecls(_, _)
JoinDecls(decls, sep) ==
    IF decls = <<>> THEN <<>>
    ELSE IF Len(decls) = 1 THEN decls
    ELSE <<Head(decls)>> \o sep \o JoinDecls(Tail(decls), sep)

\* The style attributes value fragments are drawn from: up to MaxDecls
\* declarations in every order.
StyleSamples ==
    { lead \o JoinDecls(decls, sep) \o tail :
        lead \in StyleLeads, sep \in StyleSeparators, tail \in StyleTails,
        decls \in SeqUpTo(FontDecls \cup QtDecls \cup OtherDecls, MaxDecls) }

\* A span with a style attribute around a text.
StyledSpan(style) ==
    <<"<span", StyleOpen>> \o style \o <<StyleClose, ">", "x", "</span>">>

InitSanitize ==
    /\ \E style \in StyleSamples :
          rows_widgets = WithIds(<<[kind |-> "kv", text |-> <<"k">>,
                                    val |-> StyledSpan(style)]>>)
    /\ hdr_left = DEFAULT_HEADER_LEFT
    /\ hdr_right = DEFAULT_HEADER_RIGHT
    /\ install = NoEngines
    /\ InitRest

NextSanitize == \E id \in 1..MaxRows : ValHtml(id)

SpecSanitize == InitSanitize /\ [][NextSanitize]_vars

\* The declarations of a fragment that are in a given set, in order.
DeclsIn(t, names) == SelectSeq(t, LAMBDA a : a \in names)

\* C23: what val_html returns for an entry holds no font-family, font-size
\* or -qt- declaration, and holds every other declaration of the entry's
\* style attribute, in order.
C23_FontOverridesRemoved ==
    last_op.op = "val_html"
        => /\ DeclsIn(last_op.html, FontDecls \cup QtDecls) = <<>>
           /\ DeclsIn(last_op.html, OtherDecls)
                = DeclsIn(rows_widgets[1].val, OtherDecls)

\* ------------------------------------------------------------------ overlapping exports
InitOverlap ==
    /\ \E rs \in SeqUpTo(ExportRowSamples, 1) : rows_widgets = WithIds(rs)
    /\ hdr_left = DEFAULT_HEADER_LEFT
    /\ hdr_right = <<>>
    /\ install = NoEngines
    /\ InitRest

\* Export requests, worker runs and deliveries in any order.
NextOverlap ==
    \/ ExportStartUpTo(MaxOverlap)
    \/ \E j \in 1..MaxOverlap : ExportWorkerRun(j)
    \/ \E j \in 1..MaxOverlap : OnExportFinished(j)

SpecOverlap == InitOverlap /\ [][NextOverlap]_vars

\* C24: at most one export job is in flight: from the start of a worker to
\* the delivery of its result no second worker exists.
C24_OneInFlight == Len(export_jobs) <= 1

\* ------------------------------------------------------------------ engine cache
\* The module globals of the engines, kept with the installation:
\* _ARGOS_READY, which of _ARGOS_TRANSLATOR and _ARGOS_CHAIN is set
\* ("none", "direct" or "chain"), and whether _FASTTEXT_MODEL is set.  Two
\* ghost counters keep how often the discovery of the translator and the
\* load of the classifier model were attempted.
NoCache ==
    [argos_ready |-> FALSE, translator |-> "none", fasttext_model |-> FALSE,
     argos_attempts |-> 0, fasttext_attempts |-> 0]

\* What an attempt of _ensure_argos_translator finds: the direct pair at
\* once, the direct pair after the bundled model was installed, the pivot
\* chain, nothing, or an exception of the library.
ArgosOutcomes == {"direct", "after_install", "pivot", "nothing", "raises"}

\* _ensure_argos_translator: a set translator is returned without an
\* attempt; without the library nothing is attempted; otherwise the
\* installed languages are read and the translator looked for.
EnsureArgosTranslator ==
    /\ \E outcome \in ArgosOutcomes :
        LET c == install.cache
        IN IF c.argos_ready /\ c.translator # "none" THEN UNCHANGED install
           ELSE IF ~install.argos_available THEN UNCHANGED install
           ELSE /\ c.argos_attempts < MaxCalls
                /\ install' = [install EXCEPT !.cache =
                      IF outcome \in {"direct", "after_install"}
                      THEN [c EXCEPT !.argos_ready = TRUE, !.translator = "direct",
                                     !.argos_attempts = @ + 1]
                      ELSE IF outcome = "pivot"
                      THEN [c EXCEPT !.argos_ready = TRUE, !.translator = "chain",
                                     !.argos_attempts = @ + 1]
                      ELSE [c EXCEPT !.argos_attempts = @ + 1]]
    /\ UNCHANGED <<rows_widgets, rows_v, hdr_left, hdr_right, input_mode, dialog, last_op,
                   files, written_from, trail, export_jobs, scrape>>

\* _load_fasttext_model: a loaded model is returned without an attempt;
\* without the library or without the model file nothing is loaded;
\* otherwise fasttext.load_model is called and may raise.
LoadFasttextModel ==
    /\ \E outcome \in {"missing", "loads", "raises"} :
        LET c == install.cache
        IN IF c.fasttext_model THEN UNCHANGED install
           ELSE IF ~install.fasttext_available \/ outcome = "missing"
           THEN UNCHANGED install
           ELSE /\ c.fasttext_attempts < MaxCalls
                /\ install' = [install EXCEPT !.cache =
                      [c EXCEPT !.fasttext_model = (outcome = "loads"),
                                !.fasttext_attempts = @ + 1]]
    /\ UNCHANGED <<rows_widgets, rows_v, hdr_left, hdr_right, input_mode, dialog, last_op,
                   files, written_from, trail, export_jobs, scrape>>

InitCache ==
    /\ rows_widgets = <<>>
    /\ hdr_left = DEFAULT_HEADER_LEFT
    /\ hdr_right = DEFAULT_HEADER_RIGHT
    /\ \E a \in BOOLEAN, f \in BOOLEAN :
          install = [translations_fr |-> <<>>, post_edits |-> <<>>, argos |-> a,
                     verdict |-> f, behaviour |-> "same",
                     argos_available |-> a, fasttext_available |-> f, cache |-> NoCache]
    /\ InitRest

\* The calls of the two initialisers, in any order and number.
NextCache == EnsureArgosTranslator \/ LoadFasttextModel

SpecCache == InitCache /\ [][NextCache]_vars

\* C25: the discovery of the translator and the load of the classifier
\* model are each attempted at most once in a process, and a translator
\* that was set is never replaced.
C25_InitialisedOnce ==
    /\ [](install.cache.argos_attempts <= 1 /\ install.cache.fasttext_attempts <= 1)
    /\ [][install.cache.translator # "none"
            => install'.cache.translator = install.cache.translator]_vars

\* ------------------------------------------------------------------ URL validation
\* A URL is a sequence of atoms: a scheme, host names, "/" and "?u=" and
\* path text.  The text the handler looks for is the scheme followed by the
\* fixed host.
FixedHost == "www.digitalkamera.de"
RequiredText == <<"https://", FixedHost>>

\* The URLs typed into the dialog: none, a blank, a data sheet of the fixed
\* host, a foreign host with the required text in its query, a foreign host
\* whose name begins with the fixed host's, a foreign host, and the fixed
\* host under another scheme.
UrlSamples ==
    { <<>>,
      <<" ">>,
      <<"https://", FixedHost, "/", "x">>,
      <<"https://", "evil.example", "/", "?u=", "https://", FixedHost>>,
      <<"https://", FixedHost, ".evil.example", "/", "x">>,
      <<"https://", "evil.example", "/", "x">>,
      <<"http://", FixedHost, "/", "x">> }

\* The index of the first atom at or after i that ends the host, or Len(url) + 1.
RECURSIVE HostEnd(_, _)
HostEnd(url, i) ==
    IF i <= Len(url) /\ url[i] \notin {"/", "?u="} THEN HostEnd(url, i + 1) ELSE i

\* The host of a URL: what stands between the scheme and the path.
HostOf(url) ==
    IF url # <<>> /\ url[1] \in {"https://", "http://"}
    THEN SubSeq(url, 2, HostEnd(url, 2) - 1)
    ELSE <<>>

\* _on_online_search: the dialog is accepted or not; an empty URL ends the
\* handler, a URL without the required text is answered with a warning, and
\* any other URL goes to _start_scrape.
OnOnlineSearch ==
    /\ scrape.btn_online
    /\ \E accepted \in BOOLEAN :
        IF accepted /\ Strip(scrape.url) # <<>> /\ Contains(Strip(scrape.url), RequiredText)
        THEN StartScrape
        ELSE /\ dialog' = IF accepted /\ Strip(scrape.url) # <<>> THEN "Ungueltige URL"
                          ELSE "none"
             /\ last_op' = RowOp("online_search", 0)
             /\ UNCHANGED <<rows_widgets, rows_v, scrape>>
             /\ ScrapeFrame

InitUrl ==
    /\ rows_widgets = <<>>
    /\ rows_v = <<>>
    /\ hdr_left = DEFAULT_HEADER_LEFT
    /\ hdr_right = DEFAULT_HEADER_RIGHT
    /\ install = NoEngines
    /\ input_mode = "kv"
    /\ dialog = "none"
    /\ last_op = NoOp
    /\ files = [p \in Paths |-> NoFile]
    /\ written_from = [p \in Paths |-> <<>>]
    /\ trail = NoTrail
    /\ export_jobs = <<>>
    /\ \E url \in UrlSamples :
          scrape = [url |-> url, page |-> <<[cell |-> "kv", text |-> <<"k">>, raw |-> <<"v">>]>>,
                    sheet |-> TRUE, worker |-> FALSE,
                    canceled |-> FALSE, progress |-> "none", btn_online |-> TRUE,
                    pc |-> "none", cancel |-> FALSE, i |-> 0, rows |-> <<>>,
                    skip_section |-> FALSE, clean_val |-> <<>>, signals |-> <<>>,
                    user_cancel |-> FALSE]

\* The online search and the scrape job it starts.
NextUrl ==
    \/ OnOnlineSearch
    \/ ScrapeCancel
    \/ WorkerOpen
    \/ WorkerParse
    \/ WorkerLoopCheck
    \/ WorkerLoopBody
    \/ ScrapeProgressUpdate
    \/ ScrapeFinished
    \/ ScrapeError

SpecUrl == InitUrl /\ [][NextUrl]_vars

\* C26: a ScrapeWorker exists only for a URL whose host is the fixed
\* domain, and a URL that was answered with the warning started none.
C26_HostValidated ==
    /\ scrape.worker => HostOf(Strip(scrape.url)) = <<FixedHost>>
    /\ dialog = "Ungueltige URL" => ~scrape.worker

\* ------------------------------------------------------------------ all-or-nothing
\* C27: the step in which a worker leaves ExportWorker.run with ok = false
\* has written neither file, and the step in which it leaves with ok = true
\* has written both.
C27_AllOrNothing ==
    [][\A j \in 1..Len(export_jobs) :
          (/\ Len(export_jobs') = Len(export_jobs)
           /\ export_jobs[j].pc = "running"
           /\ export_jobs'[j].pc # "running")
             => IF export_jobs'[j].result.ok
                THEN /\ files'["path_de"] = SourceText(export_jobs[j])
                     /\ files'["path_fr"] = TargetText(export_jobs[j])
                ELSE /\ files'["path_de"] = files["path_de"]
                     /\ files'["path_fr"] = files["path_fr"]]_vars

\* ------------------------------------------------------------------ terminal signal
\* The signal at the head of the queue to the main thread.
Queued(sig) == scrape.signals # <<>> /\ Head(scrape.signals).sig = sig

\* The ScrapeWorker thread and the event loop of the main thread are
\* scheduled: while the worker is in run it gets to take its next step, and
\* a queued signal gets delivered.  Each step of the worker can be
\* taken exactly at its place in run, so the weak fairness of the step is
\* written with that place where ENABLED would stand.
ScrapeFairness ==
    /\ <>[](scrape.pc = "start") => []<><<WorkerOpen>>_scrape
    /\ <>[](scrape.pc = "check") => []<><<WorkerParse>>_scrape
    /\ <>[](scrape.pc = "loop") => []<><<WorkerLoopCheck>>_scrape
    /\ <>[](scrape.pc = "body") => []<><<WorkerLoopBody>>_scrape
    /\ WF_scrape(ScrapeProgressUpdate)
    /\ <>[]Queued("finished") => []<><<ScrapeFinished>>_scrape
    /\ <>[]Queued("error") => []<><<ScrapeError>>_scrape

SpecScrapeLive == InitScrape /\ [][NextScrape]_vars /\ ScrapeFairness

TerminalSignals == {"finished", "error"}

\* The signal a step has put into the queue, when it has put one there.
Emitted == scrape'.signals[Len(scrape'.signals)]
Emits == scrape.worker /\ scrape'.worker /\ Len(scrape'.signals) > Len(scrape.signals)

\* C28: a run of the ScrapeWorker ends with exactly one terminal signal.  The
\* step that ends the run emits finished or error, and no other step of the
\* worker emits one of them; after the end of the run the worker emits
\* nothing, and every run that was started ends.
C28_OneTerminalSignal ==
    /\ [][/\ (scrape.worker /\ scrape.pc # "done" /\ scrape'.pc = "done")
               => Emits /\ Emitted.sig \in TerminalSignals
          /\ (Emits /\ Emitted.sig \in TerminalSignals)
               => scrape.pc # "done" /\ scrape'.pc = "done"
          /\ (scrape.pc = "done" /\ scrape'.pc = "done")
               => Len(scrape'.signals) <= Len(scrape.signals)]_vars
    /\ (scrape.worker /\ scrape.pc = "start") ~> (scrape.pc = "done")

\* A run was cancelled inside the loop and ended with the empty finished
\* signal, after the progress signals of the passes before.
C28_Witness ==
    /\ scrape.worker /\ scrape.pc = "done" /\ scrape.cancel
    /\ scrape.i > 0 /\ scrape.i < Len(scrape.page)
    /\ scrape.signals # <<>>
    /\ scrape.signals[Len(scrape.signals)] = Signal("finished", <<>>)

\* ------------------------------------------------------------------ scrape slot
\* A step delivers a terminal signal of the worker to the main thread.
DeliversTerminal ==
    /\ scrape.signals # <<>>
    /\ Head(scrape.signals).sig \in TerminalSignals
    /\ scrape'.signals = Tail(scrape.signals)

\* C29: at most one scrape job exists and its slot is always released.  The
\* online-search button is disabled exactly while a worker is registered; no
\* step puts a new run in the place of a registered worker; the delivery of
\* a terminal signal, whatever it carries, clears the slot and enables the
\* button; and every registered worker is released in the end.
C29_SlotReleased ==
    /\ [](scrape.worker = ~scrape.btn_online)
    /\ [][/\ (scrape.worker /\ scrape'.worker /\ scrape'.pc = "start")
               => scrape.pc = "start"
          /\ DeliversTerminal => ~scrape'.worker /\ scrape'.btn_online]_vars
    /\ scrape.worker ~> ~scrape.worker

\* After a run that committed rows and released the slot a second run has
\* been started.
C29_Witness ==
    /\ scrape.worker /\ scrape.pc = "start"
    /\ rows_widgets # <<>>
    /\ last_op.op = "scrape_start"

\* ------------------------------------------------------------------ mask round trip
\* The longest text the round trip is checked on.
MaxMaskLen == 5

\* The characters of the texts: those of a protected token, a separator and
\* the literal placeholders a text may already hold.
MaskAtoms == {"U", "S", "B", " ", "<<T0>>", "<<T1>>"}

\* _unmask_protected_tokens applied to what _mask_protected_tokens returns
\* for the text of the entry with the given identity, as _translate_plain_text
\* pairs the two calls around the engine.  The ghost record keeps the text
\* and what came back.
MaskUnmask(id) ==
    /\ IsLive(rows_widgets, id)
    /\ LET text == rows_widgets[IndexOf(rows_widgets, id)].text
           masked == _mask_protected_tokens(text)
       IN last_op' = [op |-> "mask_unmask", id |-> id, before |-> rows_widgets,
                      text |-> text, masked |-> masked.text,
                      out |-> _unmask_protected_tokens(masked.text, masked.tokens)]
    /\ UNCHANGED <<rows_widgets, rows_v, input_mode, dialog>>
    /\ EditFrame

InitMask ==
    /\ \E t \in SeqUpTo(MaskAtoms, MaxMaskLen) :
          rows_widgets = WithIds(<<[kind |-> "header", text |-> t, val |-> <<>>]>>)
    /\ hdr_left = DEFAULT_HEADER_LEFT
    /\ hdr_right = DEFAULT_HEADER_RIGHT
    /\ install = NoEngines
    /\ InitRest

NextMask == \E id \in 1..MaxRows : MaskUnmask(id)

SpecMask == InitMask /\ [][NextMask]_vars

\* C30: unmasking the masked text with the token list the masking returned
\* gives back exactly the text that was masked, whatever the text holds.
C30_RoundTrip ==
    last_op.op = "mask_unmask" => last_op.out = last_op.text

====
